---- MODULE Spec2Model ----
(***************************************************************************)
(* The per-calendar event cache of cis-cal (googleEventCache) together     *)
(* with the backend operations that read it and invalidate it, and the     *)
(* upstream calendar they talk to.                                         *)
(*                                                                         *)
(* Time is an integer number of instants.  Go's zero time.Time is the      *)
(* instant ZeroTime; a time.Time can lie before it.                        *)
(***************************************************************************)
EXTENDS Integers, Sequences, FiniteSets, TLC

\* ------------------------------------------------------------------ bounds
MaxVer == 3            \* the upstream change counter stops here (ver starts at 1)
PageSize == 1          \* items the upstream puts on one page of a listing
MaxFails == 5          \* the history counter of consecutive failures saturates here
MaxNow == 12           \* the clock of the polling cache stops here
MaxIndexes == 2        \* AddIndex calls on one polling cache
MaxStarts == 2         \* Start calls on one polling cache
MaxFeedNow == 16       \* the clock of the feed loop stops here
MaxSlotEvents == 3     \* events handed to calculateFreeSlots

\* --------------------------------------------------------------- constants
Calendars == {"A", "B"}
EventIds == {"e1", "e2"}
Orders == {<<"e1", "e2">>, <<"e2", "e1">>}   \* orders in which the upstream may list items
ZeroTime == 0                     \* time.Time{}
CurrentMidnight == 4              \* start of the current local day
BackfillYears == 2                \* AddDate(-1, 0, 0), one year in instants
StartOfCache == CurrentMidnight - BackfillYears
StartTimes == {3, 4}              \* start times the upstream hands out
EventDur == 1                     \* end = start + EventDur
FromTimes == {ZeroTime - 1, StartOfCache - 1, StartOfCache, StartOfCache + 1}
NoTime == 0 - 100                 \* a nil *time.Time
Minute == 1
MaxWait == 30                     \* time.Minute * 30

PollInterval == 5                 \* cache.NewCache(..., time.Minute*5, ...), in minutes
NowStart == ZeroTime + PollInterval + 1   \* the process starts long after the zero time
TrigCallers == {"t1", "t2"}       \* goroutines that call TriggerSync()
Profiles == {"p1", "p2"}          \* the values a loader returns
PollLoads == {<<"p1">>, <<"p2", "p1">>}

Feeds == {"F1", "F2"}             \* names of the configured ical calendars
FeedPollInterval == [F1 |-> "", F2 |-> "15m"]   \* cfg.PollInterval
FeedBaseTick == 5                 \* time.NewTicker(time.Minute * 5)
FeedDefaultInterval == 10         \* interval := time.Minute * 10
FetchErr == <<"err">>             \* ParseCalendarFromUrl returned an error
FetchResults == {FetchErr, <<"x1">>, <<"x2">>}   \* outcomes of fetching a feed's URL

FreeSlotMin == 5                  \* time.Minute*5: a gap must be longer to become a slot
SlotTimes == {1, 4, 7, 13, 19}    \* instants of ranges and events, in minutes

NoEvent == [cal |-> "none", start |-> 0, end |-> 0]
NoRes == [items |-> <<>>, next |-> "nil", tok |-> 0]
Idle == [op |-> "idle", cal |-> "none", id |-> "none", tgt |-> "none", pc |-> "idle"]

VARIABLES
    \* the upstream calendar provider
    up,            \* [EventIds -> [cal, start, end]]: where each event lives
    ver,           \* change counter; a sync token is the counter's value
    chg,           \* [Calendars -> [EventIds -> Nat]]: counter at the last change of id in cal
    rest,          \* [Calendars -> Seq(item)]: pages of the listing still to be served
    snapTok,       \* [Calendars -> Nat]: next_sync_token of the listing being served
    \* googleEventCache, one per calendar
    events, syncToken, minTime, firstLoadDone, rw,
    \* watch goroutine
    pc, waitTime, firstLoad, success, full, pageToken, res,
    \* GoogleBackend
    calList,       \* the calendars CalendarList.List() returns, in order
    eventsCache,   \* set of calendar ids that have an entry in svc.eventsCache
    boot,          \* position of New/ListCalendars in the calendar list
    h,             \* the request handler: operation and position
    hsnap,         \* deleteEvent's newEvents between DeleteFunc and the assignment
    lastRead,      \* result of the last ListEvents
    \* history
    closes,        \* [Calendars -> Nat]: close(firstLoadDone) executed
    lastOutcome,   \* [Calendars -> how the previous loadEvents ended]
    fails,         \* [Calendars -> consecutive failed cycles (saturating at MaxFails)]
    owed,          \* [Calendars -> the upstream changed after the last loadEvents began]
    lostTrig,      \* [Calendars -> a triggerSync since then found no receiver]
    burst,         \* [Calendars -> cycles started by triggerSync since a cycle last finished]
    movedAway,     \* [Calendars -> ids whose MoveEvent away from cal has returned]
    \* evicter goroutine
    evict,         \* the last evictEvents pass: [ran, before: len(ec.events) at entry]
    \* tryLoadFromCache with every search option
    lookup,        \* the last call: [search, outcome, ids]
    \* cache.Cache[T], the polling cache
    pvalues,       \* c.values
    lastFetch,     \* c.lastFetch
    indexes,       \* c.indexes: Seq([f: indexer, m: the index's values map])
    startOnce,     \* c.startOnce has run
    starts,        \* history: calls of Start so far
    loops,         \* background goroutines Start has spawned
    loopPc,        \* position of the background loop
    adder,         \* the AddIndex call in progress: [pc, idx, snap]
    blocked,       \* [TrigCallers -> the caller is inside TriggerSync()]
    cancelled,     \* ctx is cancelled
    now,           \* the clock
    lastGet,       \* result of the last Get(): [called, values, stale, at]
    lastGood,      \* history: [values, at] of the last successful load
    cause,         \* history: what started the latest loader call
    \* ical.Repository, the subscribed feeds
    feedEvents,    \* r.events: [Feeds -> Seq(event id)], a missing key is <<>>
    lastUpdates,   \* the lastUpdates map of Start: [Feeds -> time or NoTime]
    feedNow,       \* the clock of the feed loop
    feedPass,      \* history: the latest update pass
    feedLastOk,    \* history: [Feeds -> when the feed's events were last fetched]
    \* repo.Calendar and CalendarService
    denied,        \* the last refused mutation: [layer, op, cal, tgt, code]
    \* calculateFreeSlots
    fsIn,          \* the arguments: [start, end, events]
    fsOut,         \* the return values: [done, err, filtered, slots, result]
    \* GoogleBackend.LoadEvent
    loaded,        \* the last LoadEvent: [called, cal, id, cached, afterDelete, answer, outcome]
    \* ical.Repository.Start
    feedDone,      \* the goroutine of Start has returned
    \* GoogleBackend.loadEvents and svc.loadGroup
    loadGroup,     \* the keys singleflight.Group holds a call in flight for
    listers,       \* [Listers -> the caller's call of loadEvents: pc, tuple, to, key, got]
    \* GoogleBackend.cacheFor
    cacheLock,     \* svc.cacheLock: the caller that holds it, or "free"
    created,       \* history: [Calendars -> caches newCache has built for the id]
    getters,       \* [Getters -> the caller's call of cacheFor: pc, cal, got]
    \* ical.Repository: Add and the goroutine of Start
    calendarLock,  \* r.calendarLock: "free", or "W" while Add holds it
    calendars,     \* r.calendars: the names registered
    refreshLoop,   \* position of the goroutine: "none", "update", "select", "done"
    addCall,       \* the call of Add: [pc, name, result]
    \* ical.Repository.ListEvents
    icalRead       \* the last ListEvents: [called, cal, known, search, held, outcome, ids]

upVars == <<up, ver, chg, rest, snapTok>>
cacheVars == <<events, syncToken, minTime, firstLoadDone, rw>>
watchVars == <<pc, waitTime, firstLoad, success, full, pageToken, res>>
backendVars == <<calList, eventsCache, boot, h, hsnap, lastRead>>
histVars == <<closes, lastOutcome, fails, owed, lostTrig, burst, movedAway>>
pollVars == <<pvalues, lastFetch, indexes, startOnce, starts, loops, loopPc, adder, blocked,
              cancelled, now, lastGet, lastGood, cause>>
feedVars == <<feedEvents, lastUpdates, feedNow, feedPass, feedLastOk>>
fsVars == <<fsIn, fsOut>>
flightVars == <<loadGroup, listers>>
cfVars == <<cacheLock, created, getters>>
icVars == <<calendarLock, calendars, refreshLoop, addCall>>
lateVars == <<flightVars, cfVars, icVars, icalRead>>
gbVars == <<loaded, feedDone, lateVars>>
extVars == <<evict, lookup, pollVars, feedVars, denied, fsVars, gbVars>>
vars == <<upVars, cacheVars, watchVars, backendVars, histVars, extVars>>

\* ----------------------------------------------------------------- helpers
Min(a, b) == IF a < b THEN a ELSE b

Range(s) == {s[i] : i \in 1..Len(s)}

Ids(s) == {s[i].id : i \in 1..Len(s)}

RECURSIVE FilterOut(_, _)
\* slices.DeleteFunc(s, func(e) bool { return e.ID == id })
FilterOut(s, id) ==
    IF s = <<>> THEN <<>>
    ELSE IF Head(s).id = id THEN FilterOut(Tail(s), id)
         ELSE <<Head(s)>> \o FilterOut(Tail(s), id)

\* slices.IndexFunc(ec.events, func(e) bool { return e.ID == id }); 0 for -1
IndexOf(s, id) ==
    IF \E i \in 1..Len(s) : s[i].id = id
    THEN CHOOSE i \in 1..Len(s) : s[i].id = id /\ \A j \in 1..(i - 1) : s[j].id # id
    ELSE 0

RECURSIVE InsertByStart(_, _)
\* e goes behind every element that does not start later
InsertByStart(sorted, e) ==
    IF sorted = <<>> THEN <<e>>
    ELSE IF e.start < Head(sorted).start THEN <<e>> \o sorted
         ELSE <<Head(sorted)>> \o InsertByStart(Tail(sorted), e)

RECURSIVE SortFrom(_, _)
SortFrom(done, s) ==
    IF s = <<>> THEN done
    ELSE SortFrom(InsertByStart(done, Head(s)), Tail(s))

\* sort.Sort(repo.ByStartTime(ec.events)): ascending start time
SortByStart(s) == SortFrom(<<>>, s)

Sorted(s) == \A i \in 1..Len(s) : \A j \in i..Len(s) : s[i].start <= s[j].start

UniqueIds(s) == \A i \in 1..Len(s) : \A j \in 1..Len(s) : s[i].id = s[j].id => i = j

\* ---------------------------------------------------------------- upstream
LiveItem(id) ==
    [id |-> id, cancelled |-> FALSE, hasStart |-> TRUE,
     start |-> up[id].start, end |-> up[id].end]

\* a cancelled item; the upstream guarantees only its id, so Start may be nil
Tombstone(id, withStart) ==
    [id |-> id, cancelled |-> TRUE, hasStart |-> withStart, start |-> 0, end |-> 0]

RECURSIVE FullItems(_, _, _)
\* Events.List(cal).ShowDeleted(false).TimeMin(tmin): the live events ending after tmin
FullItems(ids, c, tmin) ==
    IF ids = <<>> THEN <<>>
    ELSE LET id == Head(ids)
             tl == FullItems(Tail(ids), c, tmin)
         IN IF up[id].cal = c /\ up[id].end > tmin THEN <<LiveItem(id)>> \o tl ELSE tl

RECURSIVE IncrItems(_, _, _, _)
\* Events.List(cal).SyncToken(tok): everything changed since tok, deletions as
\* cancelled items
IncrItems(ids, c, tok, ts) ==
    IF ids = <<>> THEN <<>>
    ELSE LET id == Head(ids)
             tl == IncrItems(Tail(ids), c, tok, ts)
         IN IF chg[c][id] > tok
            THEN (IF up[id].cal = c THEN <<LiveItem(id)>> ELSE <<Tombstone(id, ts[id])>>) \o tl
            ELSE tl

\* ------------------------------------------------------- googleEventCache
\* googleEventToModel fails (returns an error) when item.Start == nil
ConvertOk(item) == item.hasStart

ToModel(item) == [id |-> item.id, start |-> item.start, end |-> item.end]

replaceEvent(evts, id, newModel) ==
    LET idx == IndexOf(evts, id)
    IN IF idx = 0 THEN evts ELSE [evts EXCEPT ![idx] = newModel]

replaceOrAppend(evts, id, newModel) ==
    IF IndexOf(evts, id) # 0 THEN replaceEvent(evts, id, newModel)
    ELSE Append(evts, newModel)

deleteEvent(evts, id) == FilterOut(evts, id)

\* a syncEvent that changes nothing
syncEvent_Skip(evts, item) == evts

syncEvent(evts, item) ==
    IF ~ConvertOk(item) THEN evts
    ELSE IF item.cancelled THEN deleteEvent(evts, item.id)
    ELSE replaceOrAppend(evts, item.id, ToModel(item))

RECURSIVE ApplyItems(_, _)
\* the calls of syncEvent in the loop over res.Items in loadEvents
ApplyItems(evts, items) ==
    IF items = <<>> THEN evts
    ELSE ApplyItems(syncEvent(evts, Head(items)), Tail(items))

RECURSIVE Convertible(_)
\* the items the loop over res.Items gets past: for the first item that
\* googleEventToModel rejects, syncEvent returns (nil, ""), the switch takes its
\* default branch and evt.ToProto() dereferences the nil *repo.Event
Convertible(items) ==
    IF items = <<>> \/ ~ConvertOk(Head(items)) THEN <<>>
    ELSE <<Head(items)>> \o Convertible(Tail(items))

\* the CalendarChangeEvent built for one item: DeletedEventId or EventChange
ChangeRecord(item) ==
    IF item.cancelled THEN [kind |-> "deleted", id |-> item.id, start |-> 0, end |-> 0]
    ELSE [kind |-> "change", id |-> item.id, start |-> item.start, end |-> item.end]

\* the records handed to PublishEvent for the items of one page, in order
PublishedBy(items) == [i \in 1..Len(items) |-> ChangeRecord(items[i])]

\* repo.EventMatches with only FromTime set
EventMatches(evt, from) == evt.end > from

\* tryLoadFromCache without the IsZero() exemption: from_time >= min_time decides
CacheServes_Strict(from, min) ==
    /\ from # NoTime
    /\ from >= min

\* tryLoadFromCache: the second return value
CacheServes(from, min) ==
    /\ from # NoTime
    /\ ~(from < min /\ min # ZeroTime)

RECURSIVE MatchingIds(_, _)
MatchingIds(evts, from) ==
    IF evts = <<>> THEN {}
    ELSE (IF EventMatches(Head(evts), from) THEN {Head(evts).id} ELSE {})
         \cup MatchingIds(Tail(evts), from)

\* a trigger channel whose send always finds a receiver
ReceiverReady_Always(c) == TRUE

\* select { case ec.trigger <- struct{}{}: default: } on an unbuffered channel:
\* the send happens only when watch is blocked in its select
ReceiverReady(c) == pc[c] = "wait"

\* the wait after a cycle without the 30 minute cap
NextWait_NoCap(ok, w) == IF ok THEN Minute ELSE 2 * w

\* watch: the wait after a cycle
NextWait(ok, w) == Min(IF ok THEN Minute ELSE 2 * w, MaxWait)

\* -------------------------------------------------------------------- Init
\* what the upstream holds when the service starts: e1 in A, and e2 as one of
\* `others`
UpDomain == [EventIds -> [cal : {"A", "none"}, start : StartTimes \cup {0},
                          end : 0..(CurrentMidnight + EventDur)]]

InitUp(others) ==
    /\ up \in {f \in UpDomain :
                 /\ f["e1"] = [cal |-> "A", start |-> 4, end |-> 4 + EventDur]
                 /\ f["e2"] \in others}
    /\ ver = 1
    /\ chg = [c \in Calendars |-> [id \in EventIds |-> 0]]
    /\ rest = [c \in Calendars |-> <<>>]
    /\ snapTok = [c \in Calendars |-> 0]

\* the fields of a googleEventCache other than events and minTime
InitCache ==
    /\ syncToken = [c \in Calendars |-> 0]
    /\ firstLoadDone = [c \in Calendars |-> FALSE]
    /\ rw = [c \in Calendars |-> "free"]

InitWatch ==
    /\ pc = [c \in Calendars |-> "none"]
    /\ waitTime = [c \in Calendars |-> Minute]
    /\ firstLoad = [c \in Calendars |-> TRUE]
    /\ success = [c \in Calendars |-> FALSE]
    /\ full = [c \in Calendars |-> FALSE]
    /\ pageToken = [c \in Calendars |-> FALSE]
    /\ res = [c \in Calendars |-> NoRes]

InitBackend(list) ==
    /\ calList = list
    /\ eventsCache = {}
    /\ boot = 0
    /\ h = Idle
    /\ hsnap = <<>>
    /\ lastRead = [cal |-> "none", from |-> NoTime, served |-> FALSE, min |-> ZeroTime, ids |-> {}]

InitHist ==
    /\ closes = [c \in Calendars |-> 0]
    /\ lastOutcome = [c \in Calendars |-> "none"]
    /\ fails = [c \in Calendars |-> 0]
    /\ owed = [c \in Calendars |-> FALSE]
    /\ lostTrig = [c \in Calendars |-> FALSE]
    /\ burst = [c \in Calendars |-> 0]
    /\ movedAway = [c \in Calendars |-> {}]

NoSearch == [from |-> NoTime, to |-> NoTime, eventId |-> "none", customerId |-> "none",
             hasText |-> FALSE, text |-> <<>>]

NoLookup == [search |-> NoSearch, outcome |-> "none", ids |-> <<>>]

\* NewCache: nothing loaded, no index, the loop not started
InitPoll ==
    /\ pvalues = <<>>
    /\ lastFetch = ZeroTime
    /\ indexes = <<>>
    /\ startOnce = FALSE
    /\ starts = 0
    /\ loops = 0
    /\ loopPc = "none"
    /\ adder = [pc |-> "idle", idx |-> 0, snap |-> <<>>]
    /\ blocked = [t \in TrigCallers |-> FALSE]
    /\ cancelled = FALSE
    /\ now = NowStart
    /\ lastGet = [called |-> FALSE, values |-> <<>>, stale |-> FALSE, at |-> ZeroTime,
                  afterFail |-> FALSE]
    /\ lastGood = [values |-> <<>>, at |-> ZeroTime, failed |-> FALSE]
    /\ cause = "none"

NoPass == [ran |-> FALSE, at |-> ZeroTime, before |-> [f \in Feeds |-> <<>>],
           lastBefore |-> [f \in Feeds |-> NoTime], res |-> [f \in Feeds |-> FetchErr],
           skipped |-> {}, failed |-> {}]

InitFeed ==
    /\ feedEvents = [f \in Feeds |-> <<>>]
    /\ lastUpdates = [f \in Feeds |-> NoTime]
    /\ feedNow = NowStart
    /\ feedPass = NoPass
    /\ feedLastOk = [f \in Feeds |-> NoTime]

NoDenied == [layer |-> "none", op |-> "none", cal |-> "none", tgt |-> "none", code |-> "none"]

NoSlots == [done |-> FALSE, err |-> FALSE, filtered |-> <<>>, slots |-> <<>>, result |-> <<>>]

NoLoaded == [called |-> FALSE, cal |-> "none", id |-> "none", cached |-> FALSE,
             afterDelete |-> FALSE, answer |-> "none", outcome |-> "none"]

Listers == {"l1", "l2"}

NoGot == [err |-> FALSE, of |-> <<>>, ids |-> {}]

NoLister == [pc |-> "idle", tuple |-> <<>>, to |-> NoTime, key |-> <<>>, got |-> NoGot]

InitFlight ==
    /\ loadGroup = {}
    /\ listers = [l \in Listers |-> NoLister]

Getters == {"g1", "g2"}

NoGetter == [pc |-> "idle", cal |-> "none", got |-> 0]

InitCacheFor ==
    /\ cacheLock = "free"
    /\ created = [c \in Calendars |-> 0]
    /\ getters = [g \in Getters |-> NoGetter]

NoAdd == [pc |-> "idle", name |-> "none", result |-> "none"]

InitIcal ==
    /\ calendarLock = "free"
    /\ calendars = {}
    /\ refreshLoop = "none"
    /\ addCall = NoAdd

NoIcalRead == [called |-> FALSE, cal |-> "none", known |-> FALSE, search |-> NoSearch,
               held |-> <<>>, outcome |-> "none", ids |-> <<>>]

InitLate ==
    /\ InitFlight
    /\ InitCacheFor
    /\ InitIcal
    /\ icalRead = NoIcalRead

InitGb ==
    /\ loaded = NoLoaded
    /\ feedDone = FALSE
    /\ InitLate

InitExt ==
    /\ evict = [ran |-> FALSE, before |-> 0]
    /\ lookup = NoLookup
    /\ InitPoll
    /\ InitFeed
    /\ denied = NoDenied
    /\ fsIn = [start |-> ZeroTime, end |-> ZeroTime, events |-> <<>>]
    /\ fsOut = NoSlots
    /\ InitGb

InitWith(list, others) ==
    /\ InitUp(others)
    /\ InitCache
    /\ events = [c \in Calendars |-> <<>>]
    /\ minTime = [c \in Calendars |-> ZeroTime]
    /\ InitWatch
    /\ InitBackend(list)
    /\ InitHist
    /\ InitExt

\* ------------------------------------------------------- newCache, cacheFor
\* cacheFor(calID) from ListCalendars: newCache builds the cache and starts watch
NewCacheBegin(c) ==
    /\ boot < Len(calList)
    /\ c = calList[boot + 1]
    /\ pc[c] = "none"
    /\ pc' = [pc EXCEPT ![c] = "load"]
    /\ UNCHANGED <<upVars, cacheVars, waitTime, firstLoad, success, full, pageToken, res,
                   backendVars, histVars>>
    /\ UNCHANGED extVars

\* newCache without the receive from firstLoadDone
NewCacheReturn_NoWait(c) ==
    /\ boot < Len(calList)
    /\ c = calList[boot + 1]
    /\ pc[c] # "none"
    /\ eventsCache' = eventsCache \cup {c}
    /\ boot' = boot + 1
    /\ UNCHANGED <<upVars, cacheVars, watchVars, calList, h, hsnap, lastRead, histVars>>
    /\ UNCHANGED extVars

\* <-cache.firstLoadDone; svc.eventsCache[calID] = cache
NewCacheReturn(c) ==
    /\ boot < Len(calList)
    /\ c = calList[boot + 1]
    /\ pc[c] # "none"
    /\ firstLoadDone[c]
    /\ eventsCache' = eventsCache \cup {c}
    /\ boot' = boot + 1
    /\ UNCHANGED <<upVars, cacheVars, watchVars, calList, h, hsnap, lastRead, histVars>>
    /\ UNCHANGED extVars

\* the process has not ended in a panic
Alive == \A c \in Calendars : pc[c] # "panic"

Serving == boot = Len(calList) /\ Alive

\* -------------------------------------------------------------- loadEvents
\* entry of loadEvents: the write lock, and the choice between a full and an
\* incremental listing
LoadStart(c) ==
    /\ pc[c] = "load"
    /\ rw[c] = "free"
    /\ rw' = [rw EXCEPT ![c] = "W"]
    /\ IF syncToken[c] = 0
       THEN /\ events' = [events EXCEPT ![c] = <<>>]
            /\ minTime' = [minTime EXCEPT ![c] = StartOfCache]
            /\ full' = [full EXCEPT ![c] = TRUE]
       ELSE /\ full' = [full EXCEPT ![c] = FALSE]
            /\ UNCHANGED <<events, minTime>>
    /\ pageToken' = [pageToken EXCEPT ![c] = FALSE]
    /\ pc' = [pc EXCEPT ![c] = "call"]
    /\ owed' = [owed EXCEPT ![c] = FALSE]
    /\ lostTrig' = [lostTrig EXCEPT ![c] = FALSE]
    /\ UNCHANGED <<upVars, syncToken, firstLoadDone, waitTime, firstLoad, success, res,
                   backendVars, closes, lastOutcome, fails, burst, movedAway>>
    /\ UNCHANGED extVars

\* the listing the upstream computes for the first call of a cycle
Listing(c, order, ts) ==
    IF full[c] THEN FullItems(order, c, minTime[c])
    ELSE IncrItems(order, c, syncToken[c], ts)

\* call.Context(ctx).Do() answered with a page; lastShape is what the last
\* page of the listing carries: "sync" (next_sync_token) or "none" (neither)
CallOk(c, lastShape, order, ts) ==
    /\ pc[c] = "call"
    /\ LET all == IF pageToken[c] THEN rest[c] ELSE Listing(c, order, ts)
           n == Min(PageSize, Len(all))
           page == SubSeq(all, 1, n)
           remaining == SubSeq(all, n + 1, Len(all))
           tok == IF pageToken[c] THEN snapTok[c] ELSE ver
       IN /\ res' = [res EXCEPT ![c] =
                       [items |-> page,
                        next |-> IF remaining # <<>> THEN "page" ELSE lastShape,
                        tok |-> IF remaining = <<>> /\ lastShape = "sync" THEN tok ELSE 0]]
          /\ rest' = [rest EXCEPT ![c] = remaining]
          /\ snapTok' = [snapTok EXCEPT ![c] = IF remaining = <<>> THEN 0 ELSE tok]
    /\ pc' = [pc EXCEPT ![c] = "apply"]
    /\ UNCHANGED <<up, ver, chg, cacheVars, waitTime, firstLoad, success, full, pageToken,
                   backendVars, histVars>>
    /\ UNCHANGED extVars

\* return from loadEvents: the deferred Unlock, and the history of the cycle
Return(c, ok, outcome) ==
    /\ rw' = [rw EXCEPT ![c] = "free"]
    /\ success' = [success EXCEPT ![c] = ok]
    /\ pc' = [pc EXCEPT ![c] = "post"]
    /\ res' = [res EXCEPT ![c] = NoRes]
    /\ rest' = [rest EXCEPT ![c] = <<>>]
    /\ snapTok' = [snapTok EXCEPT ![c] = 0]
    /\ pageToken' = [pageToken EXCEPT ![c] = FALSE]
    /\ full' = [full EXCEPT ![c] = FALSE]
    /\ lastOutcome' = [lastOutcome EXCEPT ![c] = outcome]
    /\ burst' = [burst EXCEPT ![c] = 0]

\* the 410 branch without ec.syncToken = ""
CallGone_KeepToken(c) ==
    /\ pc[c] = "call"
    /\ Return(c, TRUE, "gone")
    /\ UNCHANGED <<up, ver, chg, events, syncToken, minTime, firstLoadDone, waitTime,
                   firstLoad, backendVars, closes, fails, owed, lostTrig, movedAway>>
    /\ UNCHANGED extVars

\* Do() fails with googleapi.Error{Code: 410}
CallGone(c) ==
    /\ pc[c] = "call"
    /\ syncToken' = [syncToken EXCEPT ![c] = 0]
    /\ Return(c, TRUE, "gone")
    /\ UNCHANGED <<up, ver, chg, events, minTime, firstLoadDone, waitTime, firstLoad,
                   backendVars, closes, fails, owed, lostTrig, movedAway>>
    /\ UNCHANGED extVars

\* the error branch that clears the sync token as the 410 branch does
CallErr_ClearToken(c) ==
    /\ pc[c] = "call"
    /\ syncToken' = [syncToken EXCEPT ![c] = 0]
    /\ Return(c, FALSE, "error")
    /\ UNCHANGED <<up, ver, chg, events, minTime, firstLoadDone, waitTime, firstLoad,
                   backendVars, closes, fails, owed, lostTrig, movedAway>>
    /\ UNCHANGED extVars

\* Do() fails with any other error
CallErr(c) ==
    /\ pc[c] = "call"
    /\ Return(c, FALSE, "error")
    /\ UNCHANGED <<up, ver, chg, events, syncToken, minTime, firstLoadDone, waitTime,
                   firstLoad, backendVars, closes, fails, owed, lostTrig, movedAway>>
    /\ UNCHANGED extVars

\* res.NextPageToken != "": continue with the next page
ApplyNextPage(c, evts) ==
    /\ events' = [events EXCEPT ![c] = evts]
    /\ pageToken' = [pageToken EXCEPT ![c] = TRUE]
    /\ pc' = [pc EXCEPT ![c] = "call"]
    /\ res' = [res EXCEPT ![c] = NoRes]
    /\ UNCHANGED <<rest, snapTok, syncToken, minTime, rw, success, full, lastOutcome, burst>>

\* res.NextSyncToken != "": store it, sort, return true
ApplySynced(c, evts) ==
    /\ syncToken' = [syncToken EXCEPT ![c] = res[c].tok]
    /\ events' = [events EXCEPT ![c] = SortByStart(evts)]
    /\ Return(c, TRUE, "synced")
    /\ UNCHANGED minTime

\* the neither-token branch that keeps events and min_time
ApplyUnexpected_NoReset(c) ==
    /\ syncToken' = [syncToken EXCEPT ![c] = 0]
    /\ Return(c, FALSE, "unexpected")
    /\ UNCHANGED <<events, minTime>>

\* neither token: "unexpected google api response, starting over"
ApplyUnexpected(c) ==
    /\ syncToken' = [syncToken EXCEPT ![c] = 0]
    /\ events' = [events EXCEPT ![c] = <<>>]
    /\ minTime' = [minTime EXCEPT ![c] = ZeroTime]
    /\ Return(c, FALSE, "unexpected")

\* the records the step Apply(c) hands to PublishEvent; each PublishEvent call
\* starts a goroutine of its own and returns, nothing comes back from it
Published(c) == PublishedBy(Convertible(res[c].items))

\* an item of the page cannot be converted: the nil dereference in the
\* publishing block panics, the deferred Unlock and wg.Done run, and the
\* runtime ends the process. No goroutine takes a step on this cache again,
\* which the model states by leaving the lock taken.
ApplyPanic(c, evts) ==
    /\ events' = [events EXCEPT ![c] = evts]
    /\ pc' = [pc EXCEPT ![c] = "panic"]
    /\ res' = [res EXCEPT ![c] = NoRes]
    /\ rest' = [rest EXCEPT ![c] = <<>>]
    /\ snapTok' = [snapTok EXCEPT ![c] = 0]
    /\ lastOutcome' = [lastOutcome EXCEPT ![c] = "panic"]
    /\ UNCHANGED <<syncToken, minTime, rw, success, full, pageToken, burst>>

\* the items of the page are applied and their change records handed to
\* PublishEvent one by one (Published(c) names the records of the step), then
\* the page's tokens decide
Apply(c) ==
    /\ pc[c] = "apply"
    /\ LET done == Convertible(res[c].items)
           evts == ApplyItems(events[c], done)
       IN IF Len(done) < Len(res[c].items) THEN ApplyPanic(c, evts)
          ELSE CASE res[c].next = "page" -> ApplyNextPage(c, evts)
                 [] res[c].next = "sync" -> ApplySynced(c, evts)
                 [] OTHER -> ApplyUnexpected(c)
    /\ UNCHANGED <<up, ver, chg, firstLoadDone, waitTime, firstLoad, backendVars,
                   closes, fails, owed, lostTrig, movedAway>>
    /\ UNCHANGED extVars

\* ------------------------------------------------------------------- watch
\* after loadEvents: the new wait, and close(firstLoadDone) on the first pass
Post(c) ==
    /\ pc[c] = "post"
    /\ waitTime' = [waitTime EXCEPT ![c] = NextWait(success[c], @)]
    /\ IF firstLoad[c]
       THEN /\ firstLoad' = [firstLoad EXCEPT ![c] = FALSE]
            /\ firstLoadDone' = [firstLoadDone EXCEPT ![c] = TRUE]
            /\ closes' = [closes EXCEPT ![c] = @ + 1]
       ELSE UNCHANGED <<firstLoad, firstLoadDone, closes>>
    /\ fails' = [fails EXCEPT ![c] = IF success[c] THEN 0 ELSE Min(@ + 1, MaxFails)]
    /\ success' = [success EXCEPT ![c] = FALSE]
    /\ pc' = [pc EXCEPT ![c] = "wait"]
    /\ UNCHANGED <<upVars, events, syncToken, minTime, rw, full, pageToken, res,
                   backendVars, lastOutcome, owed, lostTrig, burst, movedAway>>
    /\ UNCHANGED extVars

\* case <-time.After(waitTime)
TimerFires(c) ==
    /\ pc[c] = "wait"
    /\ pc' = [pc EXCEPT ![c] = "load"]
    /\ UNCHANGED <<upVars, cacheVars, waitTime, firstLoad, success, full, pageToken, res,
                   backendVars, histVars>>
    /\ UNCHANGED extVars

\* ------------------------------------------------------------ GoogleBackend
\* a triggerSync that sends nothing
TriggerSync_Noop(c) == UNCHANGED <<pc, burst, lostTrig>>

\* cache.triggerSync(): the effect on the watch goroutine of calendar c
TriggerSync(c) ==
    IF ReceiverReady(c)
    THEN /\ pc' = [pc EXCEPT ![c] = "load"]
         /\ burst' = [burst EXCEPT ![c] = @ + 1]
         /\ UNCHANGED lostTrig
    ELSE /\ lostTrig' = [lostTrig EXCEPT ![c] = TRUE]
         /\ UNCHANGED <<pc, burst>>

\* the upstream answers a mutation: the change counter moves on
Changed(cs, id) ==
    /\ ver' = ver + 1
    /\ chg' = [c \in Calendars |->
                 IF c \in cs THEN [chg[c] EXCEPT ![id] = ver + 1] ELSE chg[c]]
    /\ owed' = [c \in Calendars |-> owed[c] \/ c \in cs]

\* CreateEvent: Events.Insert succeeded
CreateEvent(c, id, st) ==
    /\ Serving /\ h.op = "idle" /\ ver < MaxVer
    /\ up[id].cal = "none"
    /\ up' = [up EXCEPT ![id] = [cal |-> c, start |-> st, end |-> st + EventDur]]
    /\ Changed({c}, id)
    /\ h' = [op |-> "create", cal |-> c, id |-> id, tgt |-> "none", pc |-> "trig"]
    /\ UNCHANGED <<rest, snapTok, cacheVars, watchVars, calList, eventsCache, boot, hsnap, lastRead,
                   closes, lastOutcome, fails, lostTrig, burst, movedAway>>
    /\ UNCHANGED extVars

\* UpdateEvent: Events.Update succeeded
UpdateEvent(c, id, st) ==
    /\ Serving /\ h.op = "idle" /\ ver < MaxVer
    /\ up[id].cal = c /\ up[id].start # st
    /\ up' = [up EXCEPT ![id] = [cal |-> c, start |-> st, end |-> st + EventDur]]
    /\ Changed({c}, id)
    /\ h' = [op |-> "update", cal |-> c, id |-> id, tgt |-> "none", pc |-> "trig"]
    /\ UNCHANGED <<rest, snapTok, cacheVars, watchVars, calList, eventsCache, boot, hsnap, lastRead,
                   closes, lastOutcome, fails, lostTrig, burst, movedAway>>
    /\ UNCHANGED extVars

\* MoveEvent: Events.Move succeeded
MoveEvent(c, id, t) ==
    /\ Serving /\ h.op = "idle" /\ ver < MaxVer
    /\ up[id].cal = c /\ t # c
    /\ up' = [up EXCEPT ![id].cal = t]
    /\ Changed({c, t}, id)
    /\ h' = [op |-> "move", cal |-> c, id |-> id, tgt |-> t, pc |-> "del"]
    /\ movedAway' = [movedAway EXCEPT ![t] = @ \ {id}]
    /\ UNCHANGED <<rest, snapTok, cacheVars, watchVars, calList, eventsCache, boot, hsnap, lastRead,
                   closes, lastOutcome, fails, lostTrig, burst>>
    /\ UNCHANGED extVars

\* DeleteEvent: Events.Delete succeeded
DeleteEvent(c, id) ==
    /\ Serving /\ h.op = "idle" /\ ver < MaxVer
    /\ up[id].cal = c
    /\ up' = [up EXCEPT ![id] = NoEvent]
    /\ Changed({c}, id)
    /\ h' = [op |-> "delete", cal |-> c, id |-> id, tgt |-> "none", pc |-> "del"]
    /\ UNCHANGED <<rest, snapTok, cacheVars, watchVars, calList, eventsCache, boot, hsnap, lastRead,
                   closes, lastOutcome, fails, lostTrig, burst, movedAway>>
    /\ UNCHANGED extVars

\* cache.deleteEvent(eventId), first half: newEvents := slices.DeleteFunc(ec.events, ...)
\* (no lock is taken)
DeleteRead ==
    /\ h.pc = "del"
    /\ hsnap' = deleteEvent(events[h.cal], h.id)
    /\ h' = [h EXCEPT !.pc = "delw"]
    /\ UNCHANGED <<upVars, cacheVars, watchVars, calList, eventsCache, boot, lastRead, histVars>>
    /\ UNCHANGED extVars

\* cache.deleteEvent(eventId), second half: ec.events = newEvents
DeleteWrite ==
    /\ h.pc = "delw"
    /\ events' = [events EXCEPT ![h.cal] = hsnap]
    /\ hsnap' = <<>>
    /\ h' = [h EXCEPT !.pc = "trig"]
    /\ UNCHANGED <<upVars, syncToken, minTime, firstLoadDone, rw, watchVars, calList,
                   eventsCache, boot, lastRead, histVars>>
    /\ UNCHANGED extVars

\* the handler returns to its caller
Returned ==
    /\ h' = Idle
    /\ movedAway' = IF h.op = "move"
                    THEN [movedAway EXCEPT ![h.cal] = @ \cup {h.id}]
                    ELSE movedAway

\* cache.triggerSync() on the calendar of the mutation
TriggerOrigin ==
    /\ h.pc = "trig"
    /\ TriggerSync(h.cal)
    /\ IF h.op = "move"
       THEN h' = [h EXCEPT !.pc = "trig2"] /\ UNCHANGED movedAway
       ELSE Returned
    /\ UNCHANGED <<upVars, cacheVars, waitTime, firstLoad, success, full, pageToken, res,
                   calList, eventsCache, boot, hsnap, lastRead, closes, lastOutcome, fails, owed>>
    /\ UNCHANGED extVars

\* MoveEvent: cache.triggerSync() on the target calendar
TriggerTarget ==
    /\ h.pc = "trig2"
    /\ TriggerSync(h.tgt)
    /\ Returned
    /\ UNCHANGED <<upVars, cacheVars, waitTime, firstLoad, success, full, pageToken, res,
                   calList, eventsCache, boot, hsnap, lastRead, closes, lastOutcome, fails, owed>>
    /\ UNCHANGED extVars

\* ListEvents(calendarID, WithEventsAfter(from)): tryLoadFromCache under the
\* read lock, else the upstream listing
ListEvents(c, from) ==
    /\ Serving
    /\ rw[c] = "free"
    /\ lastRead' = [cal |-> c, from |-> from,
                    served |-> CacheServes(from, minTime[c]),
                    min |-> minTime[c],
                    ids |-> IF CacheServes(from, minTime[c])
                            THEN MatchingIds(events[c], from) ELSE {}]
    /\ UNCHANGED <<upVars, cacheVars, watchVars, calList, eventsCache, boot, h, hsnap, histVars>>
    /\ UNCHANGED extVars

\* another client of the upstream creates, changes or deletes an event of c
ExternalChange(c, id, e) ==
    /\ Serving /\ ver < MaxVer
    /\ up[id].cal \in {c, "none"}
    /\ e.cal \in {c, "none"}
    /\ up[id] # e
    /\ up' = [up EXCEPT ![id] = e]
    /\ Changed({c}, id)
    /\ UNCHANGED <<rest, snapTok, cacheVars, watchVars, backendVars,
                   closes, lastOutcome, fails, lostTrig, burst, movedAway>>
    /\ UNCHANGED extVars

UpEvents(c) == {NoEvent} \cup {[cal |-> c, start |-> st, end |-> st + EventDur] : st \in StartTimes}

\* -------------------------------------------------------------------- Next
Watch(c) ==
    \/ LoadStart(c)
    \/ \E shape \in {"sync", "none"}, order \in Orders, ts \in [EventIds -> BOOLEAN] :
          CallOk(c, shape, order, ts)
    \/ CallGone(c)
    \/ CallErr(c)
    \/ Apply(c)
    \/ Post(c)
    \/ TimerFires(c)

\* the watch loop with an upstream that answers every call as documented
WatchOk(c) ==
    \/ LoadStart(c)
    \/ \E order \in Orders, ts \in [EventIds -> BOOLEAN] : CallOk(c, "sync", order, ts)
    \/ Apply(c)
    \/ Post(c)
    \/ TimerFires(c)

\* the handlers that mutate one calendar
Mutate ==
    \/ \E c \in Range(calList), id \in EventIds, st \in StartTimes : CreateEvent(c, id, st)
    \/ \E c \in Range(calList), id \in EventIds, st \in StartTimes : UpdateEvent(c, id, st)
    \/ \E c \in Range(calList), id \in EventIds : DeleteEvent(c, id)
    \/ DeleteRead
    \/ DeleteWrite
    \/ TriggerOrigin

\* MoveEvent between two calendars
Move ==
    \/ \E c \in Range(calList), id \in EventIds, t \in Range(calList) : MoveEvent(c, id, t)
    \/ DeleteRead
    \/ DeleteWrite
    \/ TriggerOrigin
    \/ TriggerTarget

External ==
    \E c \in Range(calList), id \in EventIds : \E e \in UpEvents(c) : ExternalChange(c, id, e)

Boot ==
    \/ \E c \in Calendars : NewCacheBegin(c)
    \/ \E c \in Calendars : NewCacheReturn(c)

\* one calendar, its watch loop and the mutating handlers
InA(st) == [cal |-> "A", start |-> st, end |-> st + EventDur]

Init == InitWith(<<"A">>, {NoEvent})

Next ==
    \/ Boot
    \/ \E c \in Calendars : Watch(c)
    \/ Mutate

Spec == Init /\ [][Next]_vars

\* one calendar and its watch loop, while other clients change the upstream
NextSync ==
    \/ Boot
    \/ \E c \in Calendars : Watch(c)
    \/ External

InitSync == InitWith(<<"A">>, {NoEvent, InA(3)})

SpecSync == InitSync /\ [][NextSync]_vars

\* one calendar and its readers; the upstream does not change
NextRead ==
    \/ Boot
    \/ \E c \in Calendars : Watch(c)
    \/ \E c \in Range(calList), from \in FromTimes \cup {NoTime} : ListEvents(c, from)

SpecRead == InitSync /\ [][NextRead]_vars

\* two calendars and MoveEvent between them
InitMove == InitWith(<<"A", "B">>, {NoEvent, InA(3)})

NextMove ==
    \/ Boot
    \/ \E c \in Calendars : WatchOk(c)
    \/ Move

SpecMove == InitMove /\ [][NextMove]_vars

\* ----------------------------------------------------------------- evicter
EvictMin == 500                   \* if countBefore < 500 { return }

\* the loop body of evictEvents: an event is kept when it does not start after
\* currentMidnight, or when it has an end that is not before currentMidnight
EvictKeeps(evt, midnight) ==
    \/ ~(midnight < evt.start)
    \/ (evt.end # NoTime /\ ~(evt.end < midnight))

evictEvents(evts, midnight) == SelectSeq(evts, LAMBDA e : EvictKeeps(e, midnight))

\* evicter: the ticker fires and evictEvents runs under the write lock
EvictEvents(c) ==
    /\ rw[c] = "free"
    /\ evict' = [ran |-> TRUE, before |-> Len(events[c])]
    /\ IF Len(events[c]) < EvictMin
       THEN UNCHANGED <<events, minTime>>
       ELSE /\ events' = [events EXCEPT ![c] = evictEvents(@, CurrentMidnight)]
            /\ minTime' = [minTime EXCEPT ![c] = CurrentMidnight]
    /\ UNCHANGED <<upVars, syncToken, firstLoadDone, rw, watchVars, backendVars, histVars, lookup, pollVars, feedVars, denied, fsVars, gbVars>>

\* the events a cache loaded from StartOfCache on may hold: with or without an end
EvStarts == StartOfCache..(CurrentMidnight + 1)

EvKinds == {[start |-> st, end |-> en] : st \in EvStarts, en \in {NoTime}} \cup
           {[start |-> st, end |-> st + EventDur] : st \in EvStarts}

\* n events like k followed by one like last, ids by position
EvFill(n, k, last) ==
    [i \in 1..(n + 1) |-> [id |-> i, start |-> (IF i <= n THEN k ELSE last).start,
                                    end |-> (IF i <= n THEN k ELSE last).end]]

\* a cache after its first load, holding 1, EvictMin - 1 or EvictMin events in
\* start order; watch waits for its timer
InitEvict ==
    /\ InitUp({NoEvent})
    /\ syncToken = [c \in Calendars |-> IF c = "A" THEN 1 ELSE 0]
    /\ firstLoadDone = [c \in Calendars |-> c = "A"]
    /\ rw = [c \in Calendars |-> "free"]
    /\ \E n \in {0, EvictMin - 2, EvictMin - 1} : \E k \in EvKinds, last \in EvKinds :
          /\ k.start <= last.start
          /\ events = [c \in Calendars |-> IF c = "A" THEN EvFill(n, k, last) ELSE <<>>]
    /\ minTime = [c \in Calendars |-> IF c = "A" THEN StartOfCache ELSE ZeroTime]
    /\ pc = [c \in Calendars |-> IF c = "A" THEN "wait" ELSE "none"]
    /\ waitTime = [c \in Calendars |-> Minute]
    /\ firstLoad = [c \in Calendars |-> c # "A"]
    /\ success = [c \in Calendars |-> FALSE]
    /\ full = [c \in Calendars |-> FALSE]
    /\ pageToken = [c \in Calendars |-> FALSE]
    /\ res = [c \in Calendars |-> NoRes]
    /\ InitBackend(<<"A">>)
    /\ InitHist
    /\ InitExt

NextEvict == \E c \in Range(calList) : EvictEvents(c)

SpecEvict == InitEvict /\ [][NextEvict]_vars

\* ------------------------------------------- tryLoadFromCache, EventMatches
\* text is a sequence of letters; these are the letters and their lower case
ToLowerCh(ch) == IF ch = "A" THEN "a" ELSE IF ch = "B" THEN "b" ELSE ch

\* strings.ToLower
ToLower(str) == [i \in 1..Len(str) |-> ToLowerCh(str[i])]

\* strings.Contains
Contains(str, sub) ==
    \E i \in 0..(Len(str) - Len(sub)) : SubSeq(str, i + 1, i + Len(sub)) = sub

\* repo.EventMatches(evt, search): "yes", "no", or "panic" for a nil pointer
\* dereference: *search.FromTime of a search without from time, or
\* evt.CustomerAnnotation.CustomerId of an event without annotation
EventMatchesSearch(evt, search) ==
    LET lower == IF evt.end # NoTime THEN evt.end > search.from ELSE evt.start > search.from
        upper == ~(search.to # NoTime /\ evt.start > search.to)
        byId == ~(search.eventId # "none" /\ evt.id # search.eventId)
        byCustomer == ~(search.customerId # "none" /\ evt.customer # search.customerId)
        byText == ~(search.hasText
                    /\ ~Contains(ToLower(evt.summary), ToLower(search.text))
                    /\ ~Contains(ToLower(evt.description), ToLower(search.text)))
    IN IF search.from = NoTime THEN "panic"
       ELSE IF search.customerId # "none" /\ evt.customer = "none" THEN "panic"
       ELSE IF lower /\ upper /\ byId /\ byCustomer /\ byText THEN "yes" ELSE "no"

RECURSIVE LoadFromCache(_, _, _)
\* the loop of tryLoadFromCache over ec.events; acc is res
LoadFromCache(evts, search, acc) ==
    IF evts = <<>> THEN [outcome |-> "served", ids |-> acc]
    ELSE LET m == EventMatchesSearch(Head(evts), search)
         IN IF m = "panic" THEN [outcome |-> "panic", ids |-> <<>>]
            ELSE IF m = "yes" /\ search.eventId # "none"
                 THEN [outcome |-> "served", ids |-> <<Head(evts).id>>]
            ELSE LoadFromCache(Tail(evts), search,
                               IF m = "yes" THEN Append(acc, Head(evts).id) ELSE acc)

tryLoadFromCache(evts, min, search) ==
    IF ~CacheServes(search.from, min) THEN [outcome |-> "miss", ids |-> <<>>]
    ELSE LoadFromCache(evts, search, <<>>)

\* a caller runs tryLoadFromCache(ctx, search) under the read lock
TryLoadFromCache(c, search) ==
    /\ rw[c] = "free"
    /\ lookup' = [search |-> search,
                  outcome |-> tryLoadFromCache(events[c], minTime[c], search).outcome,
                  ids |-> tryLoadFromCache(events[c], minTime[c], search).ids]
    /\ UNCHANGED <<upVars, cacheVars, watchVars, backendVars, histVars, evict, pollVars, feedVars, denied, fsVars, gbVars>>

\* the events a cache may hold: with or without end, with or without annotation
LkSummary(id) == IF id = "e1" THEN <<"A", "b">> ELSE <<"b">>

LkDescription(id) == IF id = "e1" THEN <<>> ELSE <<"B", "a">>

LkEvents ==
    {[id |-> id, start |-> st, end |-> en, customer |-> cu,
      summary |-> LkSummary(id), description |-> LkDescription(id)] :
        id \in EventIds, st \in StartTimes, en \in {NoTime, CurrentMidnight + EventDur},
        cu \in {"none", "c1"}}

LkCaches ==
    {evts \in UNION {[1..n -> LkEvents] : n \in 0..Cardinality(EventIds)} :
        UniqueIds(evts) /\ Sorted(evts)}

Searches ==
    [from : {StartOfCache - 1, StartOfCache, CurrentMidnight},
     to : {NoTime, CurrentMidnight - 1},
     eventId : {"none", "e1"},
     customerId : {"none", "c1", "c2"},
     hasText : {TRUE},
     text : {<<"a">>, <<"a", "B">>}]
    \cup
    [from : {StartOfCache - 1, StartOfCache, CurrentMidnight},
     to : {NoTime, CurrentMidnight - 1},
     eventId : {"none", "e1"},
     customerId : {"none", "c1", "c2"},
     hasText : {FALSE},
     text : {<<>>}]

\* a cache after its first load; watch waits for its timer
InitLookup ==
    /\ InitUp({NoEvent})
    /\ syncToken = [c \in Calendars |-> IF c = "A" THEN 1 ELSE 0]
    /\ firstLoadDone = [c \in Calendars |-> c = "A"]
    /\ rw = [c \in Calendars |-> "free"]
    /\ \E evts \in LkCaches : events = [c \in Calendars |-> IF c = "A" THEN evts ELSE <<>>]
    /\ minTime = [c \in Calendars |-> IF c = "A" THEN StartOfCache ELSE ZeroTime]
    /\ pc = [c \in Calendars |-> IF c = "A" THEN "wait" ELSE "none"]
    /\ waitTime = [c \in Calendars |-> Minute]
    /\ firstLoad = [c \in Calendars |-> c # "A"]
    /\ success = [c \in Calendars |-> FALSE]
    /\ full = [c \in Calendars |-> FALSE]
    /\ pageToken = [c \in Calendars |-> FALSE]
    /\ res = [c \in Calendars |-> NoRes]
    /\ InitBackend(<<"A">>)
    /\ InitHist
    /\ InitExt

NextLookup == \E c \in Range(calList), search \in Searches : TryLoadFromCache(c, search)

SpecLookup == InitLookup /\ [][NextLookup]_vars

\* ------------------------------------------------- cache.Cache, cache.Index
gcalVars == <<upVars, cacheVars, watchVars, backendVars, histVars, evict, lookup, feedVars, denied,
             fsVars, gbVars>>

\* the indexer functions of CalendarService: by user id (always ok) and by the
\* calendar id of the profile (ok only when the profile has one)
Indexer(f, v) ==
    IF f = "byUserId" THEN [key |-> v, ok |-> TRUE]
    ELSE IF v = "p1" THEN [key |-> "cal1", ok |-> TRUE] ELSE [key |-> "", ok |-> FALSE]

RECURSIVE BuildIndex(_, _, _)
\* the loop of Index.Update: m[k] = v for every value the indexer accepts
BuildIndex(f, values, m) ==
    IF values = <<>> THEN m
    ELSE LET r == Indexer(f, Head(values))
         IN BuildIndex(f, Tail(values), IF r.ok THEN (r.key :> Head(values)) @@ m ELSE m)

\* Index.Update(values): the new map replaces i.values
IndexUpdate(index, values) == [index EXCEPT !.m = BuildIndex(index.f, values, <<>>)]

\* Start(ctx): startOnce.Do spawns the loop at most once
PollStart_NoOnce ==
    /\ starts < MaxStarts
    /\ starts' = starts + 1
    /\ startOnce' = TRUE
    /\ loops' = loops + 1
    /\ loopPc' = "load"
    /\ cause' = "start"
    /\ UNCHANGED <<gcalVars, pvalues, lastFetch, indexes, adder, blocked, cancelled, now,
                   lastGet, lastGood>>

PollStart ==
    /\ starts < MaxStarts
    /\ starts' = starts + 1
    /\ IF startOnce
       THEN UNCHANGED <<startOnce, loops, loopPc, cause>>
       ELSE /\ startOnce' = TRUE
            /\ loops' = loops + 1
            /\ loopPc' = "load"
            /\ cause' = "start"
    /\ UNCHANGED <<gcalVars, pvalues, lastFetch, indexes, adder, blocked, cancelled, now,
                   lastGet, lastGood>>

\* c.loader.Load succeeded: values and lastFetch are stored under c.l
PollLoadOk(values) ==
    /\ loopPc = "load"
    /\ pvalues' = values
    /\ lastFetch' = now
    /\ lastGood' = [values |-> values, at |-> now, failed |-> FALSE]
    /\ loopPc' = "index"
    /\ UNCHANGED <<gcalVars, indexes, startOnce, starts, loops, adder, blocked, cancelled, now,
                   lastGet, cause>>

\* a failed load that advances lastFetch all the same
PollLoadErr_Advance ==
    /\ loopPc = "load"
    /\ lastFetch' = now
    /\ loopPc' = "select"
    /\ lastGood' = [lastGood EXCEPT !.failed = TRUE]
    /\ UNCHANGED <<gcalVars, pvalues, indexes, startOnce, starts, loops, adder, blocked,
                   cancelled, now, lastGet, cause>>

\* c.loader.Load failed: the error is logged
PollLoadErr ==
    /\ loopPc = "load"
    /\ loopPc' = "select"
    /\ lastGood' = [lastGood EXCEPT !.failed = TRUE]
    /\ UNCHANGED <<gcalVars, pvalues, lastFetch, indexes, startOnce, starts, loops, adder, blocked,
                   cancelled, now, lastGet, cause>>

\* c.updateIndexes(values) under indexLock
PollUpdateIndexes ==
    /\ loopPc = "index"
    /\ indexes' = [i \in DOMAIN indexes |-> IndexUpdate(indexes[i], pvalues)]
    /\ loopPc' = "select"
    /\ UNCHANGED <<gcalVars, pvalues, lastFetch, startOnce, starts, loops, adder, blocked, cancelled,
                   now, lastGet, lastGood, cause>>

\* case <-ticker.C
PollTicker ==
    /\ loopPc = "select"
    /\ loopPc' = "load"
    /\ cause' = "ticker"
    /\ UNCHANGED <<gcalVars, pvalues, lastFetch, indexes, startOnce, starts, loops, adder, blocked,
                   cancelled, now, lastGet, lastGood>>

\* TriggerSync(): the caller reaches the send c.trigger <- struct{}{}
PollTriggerSync(t) ==
    /\ ~blocked[t]
    /\ blocked' = [blocked EXCEPT ![t] = TRUE]
    /\ UNCHANGED <<gcalVars, pvalues, lastFetch, indexes, startOnce, starts, loops, loopPc, adder,
                   cancelled, now, lastGet, lastGood, cause>>

\* a TriggerSync that gives up when no receiver is waiting
PollReceive_Drop(t) ==
    /\ blocked[t]
    /\ blocked' = [blocked EXCEPT ![t] = FALSE]
    /\ IF loopPc = "select"
       THEN loopPc' = "load" /\ cause' = "trigger"
       ELSE UNCHANGED <<loopPc, cause>>
    /\ UNCHANGED <<gcalVars, pvalues, lastFetch, indexes, startOnce, starts, loops, adder, cancelled,
                   now, lastGet, lastGood>>

\* case <-c.trigger: the send of caller t and the receive of the loop meet
PollReceive(t) ==
    /\ blocked[t]
    /\ loopPc = "select"
    /\ blocked' = [blocked EXCEPT ![t] = FALSE]
    /\ loopPc' = "load"
    /\ cause' = "trigger"
    /\ UNCHANGED <<gcalVars, pvalues, lastFetch, indexes, startOnce, starts, loops, adder, cancelled,
                   now, lastGet, lastGood>>

\* the owner of ctx cancels it
PollCancel ==
    /\ ~cancelled
    /\ cancelled' = TRUE
    /\ UNCHANGED <<gcalVars, pvalues, lastFetch, indexes, startOnce, starts, loops, loopPc, adder,
                   blocked, now, lastGet, lastGood, cause>>

\* case <-ctx.Done(): return
PollCtxDone ==
    /\ loopPc = "select"
    /\ cancelled
    /\ loopPc' = "done"
    /\ UNCHANGED <<gcalVars, pvalues, lastFetch, indexes, startOnce, starts, loops, adder, blocked,
                   cancelled, now, lastGet, lastGood, cause>>

\* AddIndex: cache.indexes = append(cache.indexes, index), under indexLock
AddIndexAppend(f) ==
    /\ adder.pc = "idle"
    /\ Len(indexes) < MaxIndexes
    /\ indexes' = Append(indexes, [f |-> f, m |-> <<>>])
    /\ adder' = [pc |-> "get", idx |-> Len(indexes) + 1, snap |-> <<>>]
    /\ UNCHANGED <<gcalVars, pvalues, lastFetch, startOnce, starts, loops, loopPc, blocked, cancelled,
                   now, lastGet, lastGood, cause>>

\* AddIndex: values, _ := cache.Get()
AddIndexGet ==
    /\ adder.pc = "get"
    /\ adder' = [adder EXCEPT !.pc = "update", !.snap = pvalues]
    /\ UNCHANGED <<gcalVars, pvalues, lastFetch, indexes, startOnce, starts, loops, loopPc, blocked,
                   cancelled, now, lastGet, lastGood, cause>>

\* AddIndex: index.Update(values)
AddIndexUpdate ==
    /\ adder.pc = "update"
    /\ indexes' = [indexes EXCEPT ![adder.idx] = IndexUpdate(@, adder.snap)]
    /\ adder' = [pc |-> "idle", idx |-> 0, snap |-> <<>>]
    /\ UNCHANGED <<gcalVars, pvalues, lastFetch, startOnce, starts, loops, loopPc, blocked, cancelled,
                   now, lastGet, lastGood, cause>>

\* Get(): a copy of c.values and isStale := time.Since(c.lastFetch) > c.interval
PollGet ==
    /\ lastGet' = [called |-> TRUE, values |-> pvalues,
                   stale |-> (now - lastFetch > PollInterval), at |-> now,
                   afterFail |-> lastGood.failed]
    /\ UNCHANGED <<gcalVars, pvalues, lastFetch, indexes, startOnce, starts, loops, loopPc, adder,
                   blocked, cancelled, now, lastGood, cause>>

\* time passes
PollTick ==
    /\ now < MaxNow
    /\ now' = now + 1
    /\ UNCHANGED <<gcalVars, pvalues, lastFetch, indexes, startOnce, starts, loops, loopPc, adder,
                   blocked, cancelled, lastGet, lastGood, cause>>

\* the background loop of Start without triggers and cancellation
PollLoop ==
    \/ \E values \in PollLoads : PollLoadOk(values)
    \/ PollLoadErr
    \/ PollUpdateIndexes
    \/ PollTicker

InitIdle == InitWith(<<>>, {NoEvent})

\* the loop and callers that register indexes
NextPoll ==
    \/ PollStart
    \/ PollLoop
    \/ \E f \in {"byUserId", "userByCalId"} : AddIndexAppend(f)
    \/ AddIndexGet
    \/ AddIndexUpdate

SpecPoll == InitIdle /\ [][NextPoll]_vars

\* the loop, the clock, callers that register indexes and readers
NextPollGet ==
    \/ PollStart
    \/ PollLoop
    \/ AddIndexAppend("userByCalId")
    \/ AddIndexGet
    \/ AddIndexUpdate
    \/ PollGet
    \/ PollTick

SpecPollGet == InitIdle /\ [][NextPollGet]_vars

\* the loop, callers of TriggerSync and the cancellation of ctx
NextPollTrig ==
    \/ PollStart
    \/ PollLoop
    \/ \E t \in TrigCallers : PollTriggerSync(t)
    \/ \E t \in TrigCallers : PollReceive(t)
    \/ PollCancel
    \/ PollCtxDone

\* the loop goroutine is scheduled, Load returns within its timeout and the
\* ticker fires; a select with several ready cases picks one at random, so a
\* blocked sender is not passed over for ever
SpecPollTrig ==
    /\ InitIdle
    /\ [][NextPollTrig]_vars
    /\ WF_vars(PollLoop)
    /\ \A t \in TrigCallers : SF_vars(PollReceive(t))

\* ---------------------------------------------------------- ical.Repository
pgVars == <<upVars, cacheVars, watchVars, backendVars, histVars, evict, lookup, pollVars, denied,
           fsVars, gbVars>>

\* time.ParseDuration on the configured strings, in minutes
ParseDuration(str) ==
    IF str = "15m" THEN [ok |-> TRUE, d |-> 15] ELSE [ok |-> FALSE, d |-> 0]

\* update: the calendar is left out of this pass (both continue statements
\* inside `if ok`)
FeedSkipped(f, t) ==
    /\ lastUpdates[f] # NoTime
    /\ LET iv == IF FeedPollInterval[f] # ""
                 THEN ParseDuration(FeedPollInterval[f])
                 ELSE [ok |-> TRUE, d |-> FeedDefaultInterval]
       IN ~iv.ok \/ lastUpdates[f] + iv.d > t

\* update: the local map events after the loop over the calendars; a
\* calendar that was skipped or whose URL failed has no key in it
FeedLoaded(got, t) ==
    [f \in Feeds |-> IF FeedSkipped(f, t) \/ got[f] = FetchErr THEN <<>> ELSE got[f]]

\* r.update(c, lastUpdates) at time t, with got the outcome of every fetch
FeedUpdate(got, t) ==
    /\ feedEvents' = FeedLoaded(got, t)
    /\ feedPass' = [ran |-> TRUE, at |-> t, before |-> feedEvents, lastBefore |-> feedLastOk,
                    res |-> got,
                    skipped |-> {f \in Feeds : FeedSkipped(f, t)},
                    failed |-> {f \in Feeds : ~FeedSkipped(f, t) /\ got[f] = FetchErr}]
    /\ feedLastOk' = [f \in Feeds |->
                        IF ~FeedSkipped(f, t) /\ got[f] # FetchErr THEN t ELSE feedLastOk[f]]
    /\ UNCHANGED lastUpdates

\* Start: the goroutine runs its first pass
FeedStart(got) ==
    /\ ~feedPass.ran
    /\ FeedUpdate(got, feedNow)
    /\ UNCHANGED <<feedNow, pgVars>>

\* case <-ticker.C, then the next pass
FeedTicker(got) ==
    /\ feedPass.ran
    /\ ~feedDone
    /\ feedNow + FeedBaseTick <= MaxFeedNow
    /\ feedNow' = feedNow + FeedBaseTick
    /\ FeedUpdate(got, feedNow + FeedBaseTick)
    /\ UNCHANGED pgVars

NextFeed ==
    \/ \E got \in [Feeds -> FetchResults] : FeedStart(got)
    \/ \E got \in [Feeds -> FetchResults] : FeedTicker(got)

SpecFeed == InitIdle /\ [][NextFeed]_vars

\* ------------------------------------------- repo.Calendar, CalendarService
\* the repo.Calendar values the calendar loader returns: GoogleBackend.ListCalendars
\* leaves Readonly unset and is a Writer, ical.Repository.ListCalendars sets
\* Readonly and has no Writer methods
CalendarOf(id) == [ID |-> id, Readonly |-> id \in Feeds, writer |-> id \in Calendars]

\* the ids calendarById.Get finds
KnownCals == Range(calList) \cup Feeds

\* a Writer() that hands out the reader whatever the calendar is
Writer_Any(cal) == "ok"

\* Calendar.Writer(): "ok" stands for the writer, otherwise the error
Writer(cal) ==
    IF cal.Readonly THEN "ErrReadOnly"
    ELSE IF cal.writer THEN "ok"
    ELSE "ErrReadOnly"

\* a handler returns an error before it has done anything
Refuse(layer, op, c, t, code) ==
    /\ denied' = [layer |-> layer, op |-> op, cal |-> c, tgt |-> t, code |-> code]
    /\ UNCHANGED <<upVars, cacheVars, watchVars, backendVars, histVars, evict, lookup,
                   pollVars, feedVars, fsVars, gbVars>>

\* Calendar.CreateEvent
CalCreateEvent(cal, id, st) ==
    IF Writer(cal) # "ok"
    THEN Refuse("calendar", "create", cal.ID, "none", Writer(cal))
    ELSE CreateEvent(cal.ID, id, st)

\* Calendar.UpdateEvent
CalUpdateEvent(cal, id, st) ==
    IF Writer(cal) # "ok"
    THEN Refuse("calendar", "update", cal.ID, "none", Writer(cal))
    ELSE UpdateEvent(cal.ID, id, st)

\* Calendar.DeleteEvent
CalDeleteEvent(cal, id) ==
    IF Writer(cal) # "ok"
    THEN Refuse("calendar", "delete", cal.ID, "none", Writer(cal))
    ELSE DeleteEvent(cal.ID, id)

\* Calendar.MoveEvent
CalMoveEvent(cal, id, t) ==
    IF Writer(cal) # "ok"
    THEN Refuse("calendar", "move", cal.ID, t, Writer(cal))
    ELSE MoveEvent(cal.ID, id, t)

\* a MoveEvent handler without the test of the target's flag
TargetDenied_Never(cal) == FALSE

\* CalendarService.MoveEvent: if cal.Readonly, for the target calendar
TargetDenied(cal) == cal.Readonly

\* CalendarService.MoveEvent with both calendar ids given in the request
SvcMoveEvent(o, id, t) ==
    IF o \notin KnownCals
    THEN Refuse("service", "move", o, t, "InvalidArgument")
    ELSE IF CalendarOf(o).Readonly
    THEN Refuse("service", "move", o, t, "PermissionDenied")
    ELSE IF t \notin KnownCals
    THEN Refuse("service", "move", o, t, "InvalidArgument")
    ELSE IF TargetDenied(CalendarOf(t))
    THEN Refuse("service", "move", o, t, "PermissionDenied")
    ELSE IF Writer(CalendarOf(t)) # "ok"
    THEN Refuse("service", "move", o, t, Writer(CalendarOf(t)))
    ELSE MoveEvent(o, id, t)

\* the calendars a client names: the google calendars and one feed
ClientCals == Range(calList) \cup {"F1"}

\* the mutating methods of repo.Calendar; with a single google calendar a
\* move has no second google calendar to go to, so only the feed's
\* Calendar.MoveEvent acts
CalMutate ==
    \/ \E c \in ClientCals, id \in EventIds, st \in StartTimes :
          CalCreateEvent(CalendarOf(c), id, st)
    \/ \E c \in ClientCals, id \in EventIds, st \in StartTimes :
          CalUpdateEvent(CalendarOf(c), id, st)
    \/ \E c \in ClientCals, id \in EventIds : CalDeleteEvent(CalendarOf(c), id)
    \/ \E c \in ClientCals, id \in EventIds, t \in Range(calList) :
          CalMoveEvent(CalendarOf(c), id, t)
    \/ DeleteRead
    \/ DeleteWrite
    \/ TriggerOrigin

\* the watch loop with an upstream that answers every call as documented and
\* lists the items by id
WatchPlain(c) ==
    \/ LoadStart(c)
    \/ CallOk(c, "sync", <<"e1", "e2">>, [id \in EventIds |-> TRUE])
    \/ Apply(c)
    \/ Post(c)
    \/ TimerFires(c)

\* one google calendar, one feed, and the methods of repo.Calendar
NextCalendar ==
    \/ Boot
    \/ \E c \in Calendars : WatchPlain(c)
    \/ CalMutate

SpecCalendar == Init /\ [][NextCalendar]_vars

\* two google calendars, one feed, and the MoveEvent handler of the service
InitSvcMove == InitWith(<<"A", "B">>, {NoEvent})

NextSvcMove ==
    \/ Boot
    \/ \E c \in Calendars : WatchPlain(c)
    \/ \E o \in Range(calList) \cup {"nocal"}, id \in EventIds, t \in ClientCals :
          SvcMoveEvent(o, id, t)
    \/ DeleteRead
    \/ DeleteWrite
    \/ TriggerOrigin
    \/ TriggerTarget

SpecSvcMove == InitSvcMove /\ [][NextSvcMove]_vars

\* ------------------------------------------------------ calculateFreeSlots
allButSlots == <<upVars, cacheVars, watchVars, backendVars, histVars, evict, lookup, pollVars,
                 feedVars, denied, gbVars>>

\* timeRange.includes
includes(lo, hi, t) == lo <= t /\ hi > t

\* the test of the first loop: the event takes part in the computation
SlotMatches(start, end, evt) ==
    /\ ~(evt.end = NoTime \/ evt.fullDay \/ evt.end = ZeroTime)
    /\ \/ includes(start, end, evt.start)
       \/ includes(start, end, evt.end)
       \/ includes(evt.start, evt.end, start)
       \/ includes(evt.start, evt.end, end)

\* EventList.Less
EventListLess(a, b) == IF a.start < b.start THEN TRUE ELSE a.end < b.end

RECURSIVE InsertionInner(_, _)
\* insertionSort, inner loop: for j := i; j > a && Less(j, j-1); j-- { Swap(j, j-1) }
InsertionInner(s, j) ==
    IF j > 1 /\ EventListLess(s[j], s[j - 1])
    THEN InsertionInner([s EXCEPT ![j] = s[j - 1], ![j - 1] = s[j]], j - 1)
    ELSE s

RECURSIVE InsertionOuter(_, _)
InsertionOuter(s, i) ==
    IF i > Len(s) THEN s ELSE InsertionOuter(InsertionInner(s, i), i + 1)

\* sort.Sort(EventList) on a slice of fewer than 12 elements: insertion sort
SortEventList(s) == InsertionOuter(s, 2)

\* one turn of the second loop: the slot in front of filtered[i], or <<>>
SlotBefore(start, end, filtered, i) ==
    LET s0 == IF i = 1 THEN start ELSE filtered[i - 1].end
        startOfSlot == IF s0 > end THEN end ELSE s0
        e0 == IF filtered[i].start < start THEN start ELSE filtered[i].start
        endOfSlot == IF e0 > end THEN end ELSE e0
    IN IF endOfSlot - startOfSlot > FreeSlotMin
       THEN <<[start |-> startOfSlot, end |-> endOfSlot, fullDay |-> FALSE, free |-> i]>>
       ELSE <<>>

RECURSIVE SlotsFrom(_, _, _, _)
SlotsFrom(start, end, filtered, i) ==
    IF i > Len(filtered) THEN <<>>
    ELSE SlotBefore(start, end, filtered, i) \o SlotsFrom(start, end, filtered, i + 1)

\* the slot appended after the second loop
SlotAtEnd(start, end, filtered) ==
    IF Len(filtered) > 0
    THEN IF filtered[Len(filtered)].end < end
         THEN <<[start |-> filtered[Len(filtered)].end, end |-> end, fullDay |-> FALSE,
                 free |-> 0]>>
         ELSE <<>>
    ELSE <<[start |-> start, end |-> end, fullDay |-> FALSE, free |-> 0]>>

\* return nil, nil, fmt.Errorf("invalid slice sort")
SlotSortError(filtered) ==
    \E i \in 2..Len(filtered) : filtered[i].start < filtered[i - 1].start

calculateFreeSlots(start, end, evts) ==
    LET filtered == SortEventList(SelectSeq(evts, LAMBDA e : SlotMatches(start, end, e)))
        slots == SlotsFrom(start, end, filtered, 1) \o SlotAtEnd(start, end, filtered)
    IN IF SlotSortError(filtered)
       THEN [done |-> TRUE, err |-> TRUE, filtered |-> filtered, slots |-> <<>>, result |-> <<>>]
       ELSE [done |-> TRUE, err |-> FALSE, filtered |-> filtered, slots |-> slots,
             result |-> SortEventList(filtered \o slots)]

\* the handler calls calculateFreeSlots with the range and the events of a calendar
CalculateFreeSlots ==
    /\ ~fsOut.done
    /\ fsOut' = calculateFreeSlots(fsIn.start, fsIn.end, fsIn.events)
    /\ UNCHANGED <<fsIn, allButSlots>>

\* events as the repositories hand them out: timed events, a full-day event
\* and an event without end
SlotEvents ==
    {x \in [start : SlotTimes, end : SlotTimes, fullDay : {FALSE}, free : {0}] : x.start < x.end}

SlotSpecials ==
    {[start |-> 4, end |-> NoTime, fullDay |-> FALSE, free |-> 0],
     [start |-> 4, end |-> 13, fullDay |-> TRUE, free |-> 0]}

SlotInputs ==
    UNION {[1..n -> SlotEvents \cup SlotSpecials] : n \in 0..MaxSlotEvents}

InitSlots ==
    /\ InitUp({NoEvent})
    /\ InitCache
    /\ events = [c \in Calendars |-> <<>>]
    /\ minTime = [c \in Calendars |-> ZeroTime]
    /\ InitWatch
    /\ InitBackend(<<>>)
    /\ InitHist
    /\ evict = [ran |-> FALSE, before |-> 0]
    /\ lookup = NoLookup
    /\ InitPoll
    /\ InitFeed
    /\ denied = NoDenied
    /\ fsIn \in {x \in [start : SlotTimes, end : SlotTimes, events : SlotInputs] : x.start < x.end}
    /\ fsOut = NoSlots
    /\ InitGb

SpecSlots == InitSlots /\ [][CalculateFreeSlots]_vars

\* ------------------------------------------------ GoogleBackend.LoadEvent
\* opts := &repo.EventSearchOptions{EventID: &eventID} with a from time added
LoadEventSearch_From(id) == [NoSearch EXCEPT !.eventId = id, !.from = StartOfCache]

\* opts := &repo.EventSearchOptions{EventID: &eventID}
LoadEventSearch(id) == [NoSearch EXCEPT !.eventId = id]

\* what Events.Get(calendarID, eventID) may answer: the item of an event the
\* calendar holds, 404 or 410 for one it does not hold, or another error
GetAnswers(c, id) == (IF up[id].cal = c THEN {"item"} ELSE {"404", "410"}) \cup {"err"}

\* the events of the cache as tryLoadFromCache sees them; the cache of the
\* backend model carries no annotation and no text
AsCached(evts) ==
    [i \in 1..Len(evts) |-> [id |-> evts[i].id, start |-> evts[i].start, end |-> evts[i].end,
                              customer |-> "none", summary |-> <<>>, description |-> <<>>]]

\* LoadEvent(ctx, calendarID, eventID, ignoreCache): the cache is asked first
\* unless ignoreCache, then Events.Get; 404 and 410 become repo.ErrNotFound
LoadEvent(c, id, ignoreCache, answer) ==
    /\ Serving
    /\ c \in eventsCache
    /\ answer \in GetAnswers(c, id)
    /\ LoadEventSearch(id).from = NoTime \/ rw[c] = "free"
    /\ LET got == tryLoadFromCache(AsCached(events[c]), minTime[c], LoadEventSearch(id))
           hit == ~ignoreCache /\ got.outcome = "served" /\ Len(got.ids) = 1
       IN loaded' = [called |-> TRUE, cal |-> c, id |-> id,
                     cached |-> id \in Ids(events[c]),
                     afterDelete |-> /\ up[id].cal = "none"
                                     /\ chg[c][id] > 0
                                     /\ ~(h.op = "delete" /\ h.id = id),
                     answer |-> answer,
                     outcome |-> IF hit THEN "cache"
                                 ELSE IF answer \in {"404", "410"} THEN "notfound"
                                 ELSE answer]
    /\ UNCHANGED <<upVars, cacheVars, watchVars, backendVars, histVars, evict, lookup,
                   pollVars, feedVars, denied, fsVars, feedDone, lateVars>>

\* one google calendar: UpdateEvent and DeleteEvent on e1, and LoadEvent
NextLoad ==
    \/ Boot
    \/ \E c \in Calendars : WatchPlain(c)
    \/ \E c \in Range(calList), st \in StartTimes : UpdateEvent(c, "e1", st)
    \/ \E c \in Range(calList) : DeleteEvent(c, "e1")
    \/ DeleteRead
    \/ DeleteWrite
    \/ TriggerOrigin
    \/ \E c \in Range(calList), id \in EventIds, ic \in BOOLEAN, answer \in {"item", "404", "410", "err"} :
          LoadEvent(c, id, ic, answer)

SpecLoad == Init /\ [][NextLoad]_vars

\* ------------------------------------------------------------ cancellation
\* watch: case <-ctx.Done(): return
WatchCtxDone(c) ==
    /\ pc[c] = "wait"
    /\ cancelled
    /\ pc' = [pc EXCEPT ![c] = "done"]
    /\ UNCHANGED <<upVars, cacheVars, waitTime, firstLoad, success, full, pageToken, res,
                   backendVars, histVars, extVars>>

\* a feed loop whose select never takes ctx.Done()
FeedCtxDone_Never ==
    /\ feedPass.ran /\ ~feedDone
    /\ cancelled
    /\ UNCHANGED vars

\* Repository.Start: case <-ctx.Done(): return
FeedCtxDone ==
    /\ feedPass.ran /\ ~feedDone
    /\ cancelled
    /\ feedDone' = TRUE
    /\ UNCHANGED <<upVars, cacheVars, watchVars, backendVars, histVars, evict, lookup, pollVars,
                   feedVars, denied, fsVars, loaded, lateVars>>

\* the steps of the watch loop of c other than the select; the upstream
\* answers every call, and a call made or in flight when the context is
\* cancelled may fail instead
WatchCycle(c) ==
    \/ LoadStart(c)
    \/ CallOk(c, "sync", <<"e1", "e2">>, [id \in EventIds |-> TRUE])
    \/ cancelled /\ CallErr(c)
    \/ Apply(c)
    \/ Post(c)

\* the steps of the polling loop other than the select; the loader fails
\* only on a cancelled context
PollCycle ==
    \/ PollLoadOk(<<"p1">>)
    \/ cancelled /\ PollLoadErr
    \/ PollUpdateIndexes

\* the first pass of the feed loop: every fetch succeeds, or, on a cancelled
\* context, every fetch fails
FeedFirst ==
    \/ FeedStart([f \in Feeds |-> <<"x1">>])
    \/ cancelled /\ FeedStart([f \in Feeds |-> FetchErr])

\* the later passes
FeedLater ==
    \/ FeedTicker([f \in Feeds |-> <<"x1">>])
    \/ cancelled /\ FeedTicker([f \in Feeds |-> FetchErr])

\* the three background loops and the cancellation of the process-wide context
NextCancel ==
    \/ Boot
    \/ \E c \in Calendars : WatchCycle(c)
    \/ \E c \in Calendars : TimerFires(c)
    \/ \E c \in Calendars : WatchCtxDone(c)
    \/ ~startOnce /\ PollStart
    \/ PollCycle
    \/ PollTicker
    \/ PollCtxDone
    \/ FeedFirst
    \/ FeedLater
    \/ FeedCtxDone
    \/ PollCancel

\* every goroutine is scheduled and every upstream call, loader call and fetch
\* returns (weak fairness of the steps outside the selects); a select with
\* several ready cases picks one uniformly at random, so the ready ctx.Done()
\* case is not passed over for ever (strong fairness)
SpecCancel ==
    /\ Init
    /\ [][NextCancel]_vars
    /\ WF_vars(Boot)
    /\ \A c \in Calendars : WF_vars(WatchCycle(c))
    /\ WF_vars(~startOnce /\ PollStart)
    /\ WF_vars(PollCycle)
    /\ WF_vars(FeedFirst)
    /\ \A c \in Calendars : SF_vars(WatchCtxDone(c))
    /\ SF_vars(PollCtxDone)
    /\ SF_vars(FeedCtxDone)

\* ------------------------------------------- events before the cache window
\* an event that lies entirely before the start of the cache
OldEvent(c) == [cal |-> c, start |-> StartOfCache - 2, end |-> StartOfCache - 1]

\* loadEvents of the pruning revision, first loop: an event that starts and
\* ends before minTime is dropped
PruneBeforeMin(evts, min) ==
    SelectSeq(evts, LAMBDA e : ~(e.start < min /\ e.end # NoTime /\ e.end < min))

\* entry of loadEvents with that loop in front
LoadStartPruned(c) ==
    /\ pc[c] = "load"
    /\ rw[c] = "free"
    /\ rw' = [rw EXCEPT ![c] = "W"]
    /\ IF syncToken[c] = 0
       THEN /\ events' = [events EXCEPT ![c] = <<>>]
            /\ minTime' = [minTime EXCEPT ![c] = StartOfCache]
            /\ full' = [full EXCEPT ![c] = TRUE]
       ELSE /\ events' = [events EXCEPT ![c] = PruneBeforeMin(@, minTime[c])]
            /\ full' = [full EXCEPT ![c] = FALSE]
            /\ UNCHANGED minTime
    /\ pageToken' = [pageToken EXCEPT ![c] = FALSE]
    /\ pc' = [pc EXCEPT ![c] = "call"]
    /\ owed' = [owed EXCEPT ![c] = FALSE]
    /\ lostTrig' = [lostTrig EXCEPT ![c] = FALSE]
    /\ UNCHANGED <<upVars, syncToken, firstLoadDone, waitTime, firstLoad, success, res,
                   backendVars, closes, lastOutcome, fails, burst, movedAway>>
    /\ UNCHANGED extVars

\* one calendar and its watch loop with either entry of loadEvents, while
\* another client sets events to a time before the cache window
NextOld ==
    \/ Boot
    \/ \E c \in Calendars : WatchPlain(c)
    \/ \E c \in Calendars : LoadStartPruned(c)
    \/ \E c \in Range(calList), id \in EventIds : ExternalChange(c, id, OldEvent(c))

SpecOld == InitSync /\ [][NextOld]_vars

\* ------------------------------------------- a cache that has never synced
\* the watch loop with an upstream that never completes a listing: every call
\* fails, or the last page of the listing carries no sync token
WatchNoSync(c) ==
    \/ LoadStart(c)
    \/ \E order \in Orders, ts \in [EventIds -> BOOLEAN] : CallOk(c, "none", order, ts)
    \/ CallGone(c)
    \/ CallErr(c)
    \/ Apply(c)
    \/ Post(c)
    \/ TimerFires(c)

\* one calendar whose cache never completes a sync, and its readers
NextNoSync ==
    \/ Boot
    \/ \E c \in Calendars : WatchNoSync(c)
    \/ \E c \in Range(calList), from \in FromTimes \cup {NoTime} : ListEvents(c, from)

SpecNoSync == InitSync /\ [][NextNoSync]_vars

\* ---------------------------------- GoogleBackend.loadEvents, svc.loadGroup
\* a string is a sequence of characters; an optional string (*string) is <<>>
\* for nil and <<s>> for a pointer to s
DigitChars == <<"0", "1", "2", "3", "4", "5", "6", "7", "8", "9">>

\* t.Format(time.RFC3339), for the instants 0..9: a text that no id or search
\* text of the model equals
RFC3339(t) == <<"t", DigitChars[t + 1]>>

\* key += "-" + *opt, for an option that is set
KeyPart(opt) == IF opt = <<>> THEN <<>> ELSE <<"-">> \o opt[1]

\* the TimeMax of the call: the cache's min_time, or to_time when that is later
LoadUpper(c, o) == IF o.to # NoTime /\ o.to > minTime[c] THEN o.to ELSE minTime[c]

\* the key loadEvents builds for svc.loadGroup.Do
LoadKey(c, o) ==
    <<c>> \o (IF o.from # NoTime THEN <<"-">> \o RFC3339(o.from) ELSE <<>>)
          \o <<"-">> \o RFC3339(LoadUpper(c, o))
          \o KeyPart(o.eventId) \o KeyPart(o.customerId) \o KeyPart(o.text)

\* the tuple (calendar_id, from, upper, event_id, customer_id, search_text)
LoadTuple(c, o) == <<c, o.from, LoadUpper(c, o), o.eventId, o.customerId, o.text>>

\* the events the upstream holds for calendar A while listings run
GcalEvents ==
    {[id |-> <<"e", "1">>, start |-> 1, end |-> 2, customer |-> <<"4", "2">>,
      summary |-> <<"r", "e", "x">>],
     [id |-> <<"e", "2">>, start |-> 1, end |-> 2, customer |-> <<"7">>,
      summary |-> <<"n", "o", "4", "2">>],
     [id |-> <<"4", "2">>, start |-> 2, end |-> 3, customer |-> <<"9">>,
      summary |-> <<"v", "a", "c">>]}

\* Events.List with TimeMin, TimeMax, SharedExtendedProperty and Q, all pages
UpstreamItems(tuple) ==
    {e \in GcalEvents :
        /\ tuple[2] = NoTime \/ e.end > tuple[2]
        /\ e.start < tuple[3]
        /\ tuple[5] = <<>> \/ e.customer = tuple[5][1]
        /\ tuple[6] = <<>> \/ Contains(e.summary, tuple[6][1])}

\* the closure handed to loadGroup.Do: the listing, then the event-id filter
UpstreamList(tuple) ==
    {e.id : e \in {x \in UpstreamItems(tuple) : tuple[4] = <<>> \/ x.id = tuple[4][1]}}

\* search options of the listings that go to the upstream
ListOpts ==
    [from : {NoTime, StartOfCache - 1},
     to : {NoTime, StartOfCache + 1},
     eventId : {<<>>, <<<<"4", "2">>>>},
     customerId : {<<>>, <<<<"4", "2">>>>},
     text : {<<>>, <<<<"4", "2">>>>}]

\* ListEvents missed the cache and calls svc.loadEvents: loadGroup.Do(key, fn)
\* runs fn, or joins the call in flight for the key
LoadEnter(l, c, o) ==
    /\ firstLoadDone[c]
    /\ listers[l].pc \in {"idle", "done"}
    /\ ~CacheServes(o.from, minTime[c])
    /\ LET key == LoadKey(c, o)
       IN /\ listers' = [listers EXCEPT ![l] =
                           [pc |-> IF key \in loadGroup THEN "wait" ELSE "run",
                            tuple |-> LoadTuple(c, o), to |-> o.to, key |-> key,
                            got |-> NoGot]]
          /\ loadGroup' = loadGroup \cup {key}
    /\ UNCHANGED <<upVars, cacheVars, watchVars, backendVars, histVars, evict, lookup,
                   pollVars, feedVars, denied, fsVars, loaded, feedDone, cfVars, icVars, icalRead>>

\* fn returns: the result goes to the caller that ran it and to every caller
\* that joined, and the key leaves the group
LoadFinish(l, failed) ==
    /\ listers[l].pc = "run"
    /\ LET got == [err |-> failed, of |-> listers[l].tuple,
                   ids |-> IF failed THEN {} ELSE UpstreamList(listers[l].tuple)]
       IN listers' = [k \in Listers |->
                        IF listers[k].pc \in {"run", "wait"} /\ listers[k].key = listers[l].key
                        THEN [listers[k] EXCEPT !.pc = "done", !.got = got]
                        ELSE listers[k]]
    /\ loadGroup' = loadGroup \ {listers[l].key}
    /\ UNCHANGED <<upVars, cacheVars, watchVars, backendVars, histVars, evict, lookup,
                   pollVars, feedVars, denied, fsVars, loaded, feedDone, cfVars, icVars, icalRead>>

\* calendar A with a cache that has synced, and two concurrent callers
InitListing ==
    /\ InitUp({NoEvent})
    /\ syncToken = [c \in Calendars |-> IF c = "A" THEN 1 ELSE 0]
    /\ firstLoadDone = [c \in Calendars |-> c = "A"]
    /\ rw = [c \in Calendars |-> "free"]
    /\ events = [c \in Calendars |-> <<>>]
    /\ minTime = [c \in Calendars |-> IF c = "A" THEN StartOfCache ELSE ZeroTime]
    /\ pc = [c \in Calendars |-> IF c = "A" THEN "wait" ELSE "none"]
    /\ waitTime = [c \in Calendars |-> Minute]
    /\ firstLoad = [c \in Calendars |-> c # "A"]
    /\ success = [c \in Calendars |-> FALSE]
    /\ full = [c \in Calendars |-> FALSE]
    /\ pageToken = [c \in Calendars |-> FALSE]
    /\ res = [c \in Calendars |-> NoRes]
    /\ InitBackend(<<"A">>)
    /\ InitHist
    /\ InitExt

NextListing ==
    \/ \E l \in Listers, c \in Range(calList), o \in ListOpts : LoadEnter(l, c, o)
    \/ \E l \in Listers, failed \in BOOLEAN : LoadFinish(l, failed)

SpecListing == InitListing /\ [][NextListing]_vars

\* ------------------------------ loadEvents with appendEvents (repo package)
\* appendEvents(events, minTime), ec.events: the events whose id the cache does
\* not hold are put in front of it
appendEvents(evts, new) == SelectSeq(new, LAMBDA e : e.id \notin Ids(evts)) \o evts

\* the orders in which the upstream may list a set of events
ListingsOf(S) ==
    {s \in [1..Cardinality(S) -> S] : \A i, j \in 1..Cardinality(S) : s[i] = s[j] => i = j}

\* tryLoadFromCache of the repo package for from_time and to_time, after the
\* append: the ids served
Requery(evts, from, to) ==
    {evts[i].id : i \in {j \in 1..Len(evts) :
                           evts[j].end > from /\ ~(to # NoTime /\ evts[j].start > to)}}

\* the closure of the repo package returns: a listing without event id and
\* with from_time is appended to the cache with floor = from_time, and the
\* callers then read the cache again
LoadFinishAppend(l, failed, listed) ==
    /\ listers[l].pc = "run"
    /\ listed \in ListingsOf(UpstreamItems(listers[l].tuple))
    /\ LET t == listers[l].tuple
           c == t[1]
           found == t[4] # <<>> /\ t[4][1] \in {e.id : e \in Range(listed)}
           fetched == IF t[4] # <<>> THEN <<>> ELSE listed
           appends == ~failed /\ ~found /\ t[2] # NoTime
           evts == IF appends THEN appendEvents(events[c], fetched) ELSE events[c]
           min == IF appends /\ t[2] < minTime[c] THEN t[2] ELSE minTime[c]
           ids == IF failed THEN {}
                  ELSE IF t[4] # <<>> \/ t[2] = NoTime THEN UpstreamList(t)
                  ELSE Requery(evts, t[2], listers[l].to)
       IN /\ events' = [events EXCEPT ![c] = evts]
          /\ minTime' = [minTime EXCEPT ![c] = min]
          /\ listers' = [k \in Listers |->
                           IF listers[k].pc \in {"run", "wait"} /\ listers[k].key = listers[l].key
                           THEN [listers[k] EXCEPT !.pc = "done",
                                                   !.got = [err |-> failed, of |-> t, ids |-> ids]]
                           ELSE listers[k]]
    /\ loadGroup' = loadGroup \ {listers[l].key}
    /\ UNCHANGED <<upVars, syncToken, firstLoadDone, rw, watchVars, backendVars, histVars,
                   evict, lookup, pollVars, feedVars, denied, fsVars, loaded, feedDone, cfVars,
                   icVars, icalRead>>

\* the options the repo package puts into the key: from_time, to_time, event id
AppendOpts == {o \in ListOpts : o.customerId = <<>> /\ o.text = <<>>}

\* the cache of calendar A holds the event of the window the upstream holds
InitAppend ==
    /\ InitUp({NoEvent})
    /\ syncToken = [c \in Calendars |-> IF c = "A" THEN 1 ELSE 0]
    /\ firstLoadDone = [c \in Calendars |-> c = "A"]
    /\ rw = [c \in Calendars |-> "free"]
    /\ events = [c \in Calendars |->
                   IF c = "A" THEN <<CHOOSE e \in GcalEvents : e.end > StartOfCache>>
                   ELSE <<>>]
    /\ minTime = [c \in Calendars |-> IF c = "A" THEN StartOfCache ELSE ZeroTime]
    /\ pc = [c \in Calendars |-> IF c = "A" THEN "wait" ELSE "none"]
    /\ waitTime = [c \in Calendars |-> Minute]
    /\ firstLoad = [c \in Calendars |-> c # "A"]
    /\ success = [c \in Calendars |-> FALSE]
    /\ full = [c \in Calendars |-> FALSE]
    /\ pageToken = [c \in Calendars |-> FALSE]
    /\ res = [c \in Calendars |-> NoRes]
    /\ InitBackend(<<"A">>)
    /\ InitHist
    /\ InitExt

NextAppend ==
    \/ \E l \in Listers, c \in Range(calList), o \in AppendOpts : LoadEnter(l, c, o)
    \/ \E l \in Listers, failed \in BOOLEAN :
          /\ listers[l].pc = "run"
          /\ \E listed \in ListingsOf(UpstreamItems(listers[l].tuple)) :
                LoadFinishAppend(l, failed, listed)

SpecAppend == InitAppend /\ [][NextAppend]_vars

\* ------------------------------------------------- GoogleBackend.cacheFor
\* cacheFor that looks the id up and builds the cache without svc.cacheLock
CacheForBegin_NoLock(g, c) ==
    /\ getters[g].pc \in {"idle", "done"}
    /\ IF c \in eventsCache
       THEN /\ getters' = [getters EXCEPT ![g] = [pc |-> "done", cal |-> c, got |-> created[c]]]
            /\ UNCHANGED <<created, pc>>
       ELSE /\ created' = [created EXCEPT ![c] = @ + 1]
            /\ pc' = [pc EXCEPT ![c] = IF @ = "none" THEN "load" ELSE @]
            /\ getters' = [getters EXCEPT ![g] = [pc |-> "first", cal |-> c, got |-> 0]]
    /\ UNCHANGED <<upVars, cacheVars, waitTime, firstLoad, success, full, pageToken, res,
                   backendVars, histVars, evict, lookup, pollVars, feedVars, denied, fsVars,
                   loaded, feedDone, flightVars, cacheLock, icVars, icalRead>>

\* cacheFor(calID): svc.cacheLock.Lock(), the lookup in svc.eventsCache, and for
\* a missing entry newCache up to `go cache.watch(ctx)`
CacheForBegin(g, c) ==
    /\ getters[g].pc \in {"idle", "done"}
    /\ cacheLock = "free"
    /\ IF c \in eventsCache
       THEN /\ getters' = [getters EXCEPT ![g] = [pc |-> "done", cal |-> c, got |-> created[c]]]
            /\ UNCHANGED <<created, pc, cacheLock>>
       ELSE /\ cacheLock' = g
            /\ created' = [created EXCEPT ![c] = @ + 1]
            /\ pc' = [pc EXCEPT ![c] = IF @ = "none" THEN "load" ELSE @]
            /\ getters' = [getters EXCEPT ![g] = [pc |-> "first", cal |-> c, got |-> 0]]
    /\ UNCHANGED <<upVars, cacheVars, waitTime, firstLoad, success, full, pageToken, res,
                   backendVars, histVars, evict, lookup, pollVars, feedVars, denied, fsVars,
                   loaded, feedDone, flightVars, icVars, icalRead>>

\* <-cache.firstLoadDone; svc.eventsCache[calID] = cache; the deferred Unlock
CacheForReturn(g) ==
    /\ getters[g].pc = "first"
    /\ firstLoadDone[getters[g].cal]
    /\ eventsCache' = eventsCache \cup {getters[g].cal}
    /\ getters' = [getters EXCEPT ![g].pc = "done", ![g].got = created[getters[g].cal]]
    /\ cacheLock' = IF cacheLock = g THEN "free" ELSE cacheLock
    /\ UNCHANGED <<upVars, cacheVars, watchVars, calList, boot, h, hsnap, lastRead, histVars,
                   evict, lookup, pollVars, feedVars, denied, fsVars, loaded, feedDone,
                   flightVars, created, icVars, icalRead>>

\* two concurrent callers of cacheFor for either calendar id, and the watch
\* loops newCache starts; a cycle stores a sync token or fails
NextCacheFor ==
    \/ \E g \in Getters, c \in Calendars : CacheForBegin(g, c)
    \/ \E g \in Getters : CacheForReturn(g)
    \/ \E c \in Calendars : WatchOk(c)
    \/ \E c \in Calendars : CallErr(c)

SpecCacheFor == Init /\ [][NextCacheFor]_vars

\* ------------------------------ ical.Repository.Add and the refresh channel
\* everything but the feed loop, Add, and the cancellation of the context
icBase == <<upVars, cacheVars, watchVars, backendVars, histVars, evict, lookup, denied, fsVars,
            loaded, feedDone, flightVars, cfVars>>

icRest == <<icBase, icalRead>>

icPoll == <<pvalues, lastFetch, indexes, startOnce, starts, loops, loopPc, adder, blocked, now,
            lastGet, lastGood, cause>>

\* Start(ctx): the goroutine is spawned and is about to call update
IcalStart ==
    /\ refreshLoop = "none"
    /\ refreshLoop' = "update"
    /\ UNCHANGED <<icRest, icPoll, cancelled, feedVars, calendarLock, calendars, addCall>>

\* what the fetches return in a pass: the events of a registered calendar
IcalFetched == [f \in Feeds |-> IF f \in calendars THEN <<"x1">> ELSE FetchErr]

\* r.update(c, lastUpdates): GetCalendars takes the read lock of calendarLock,
\* which it gets only while Add does not hold the write lock; then the pass
IcalUpdate ==
    /\ refreshLoop = "update"
    /\ calendarLock = "free"
    /\ FeedUpdate(IcalFetched, feedNow)
    /\ refreshLoop' = "select"
    /\ UNCHANGED <<icRest, icPoll, cancelled, feedNow, calendarLock, calendars, addCall>>

\* select: case <-ticker.C
IcalTick ==
    /\ refreshLoop = "select"
    /\ feedNow + FeedBaseTick <= MaxFeedNow
    /\ feedNow' = feedNow + FeedBaseTick
    /\ refreshLoop' = "update"
    /\ UNCHANGED <<icRest, icPoll, cancelled, feedEvents, lastUpdates, feedPass, feedLastOk,
                   calendarLock, calendars, addCall>>

\* select: case <-r.triggerRefresh, the rendezvous with the send in Add
IcalReceive ==
    /\ refreshLoop = "select"
    /\ addCall.pc = "send"
    /\ refreshLoop' = "update"
    /\ addCall' = [addCall EXCEPT !.pc = "sent"]
    /\ UNCHANGED <<icRest, icPoll, cancelled, feedVars, calendarLock, calendars>>

\* select: case <-ctx.Done(): return
IcalCtxDone ==
    /\ refreshLoop = "select"
    /\ cancelled
    /\ refreshLoop' = "done"
    /\ UNCHANGED <<icRest, icPoll, cancelled, feedVars, calendarLock, calendars, addCall>>

\* the process-wide context is cancelled
IcalCancel ==
    /\ ~cancelled
    /\ cancelled' = TRUE
    /\ UNCHANGED <<icRest, icPoll, feedVars, icVars>>

\* Add(cfg, triggerRefresh) up to the send: the write lock, the search for the
\* name, the append; without trigger, or for a known name, it returns
AddBegin(f, trigger) ==
    /\ addCall.pc = "idle"
    /\ calendarLock = "free"
    /\ IF f \in calendars
       THEN /\ addCall' = [pc |-> "idle", name |-> f, result |-> "exists"]
            /\ UNCHANGED <<calendars, calendarLock>>
       ELSE /\ calendars' = calendars \cup {f}
            /\ IF trigger
               THEN /\ addCall' = [pc |-> "send", name |-> f, result |-> "none"]
                    /\ calendarLock' = "W"
               ELSE /\ addCall' = [pc |-> "idle", name |-> f, result |-> "ok"]
                    /\ UNCHANGED calendarLock
    /\ UNCHANGED <<icRest, icPoll, cancelled, feedVars, refreshLoop>>

\* the send was received: return nil and the deferred Unlock
AddReturn ==
    /\ addCall.pc = "sent"
    /\ addCall' = [addCall EXCEPT !.pc = "idle", !.result = "ok"]
    /\ calendarLock' = "free"
    /\ UNCHANGED <<icRest, icPoll, cancelled, feedVars, calendars, refreshLoop>>

NextAdd ==
    \/ IcalStart
    \/ IcalUpdate
    \/ IcalTick
    \/ IcalReceive
    \/ IcalCtxDone
    \/ IcalCancel
    \/ \E f \in Feeds, trigger \in BOOLEAN : AddBegin(f, trigger)
    \/ AddReturn

\* Start is called, the goroutine is scheduled and its fetches return, Add is
\* scheduled; a select with several ready cases picks one at random, so a
\* sender that stays ready is received from
SpecAdd ==
    /\ Init
    /\ [][NextAdd]_vars
    /\ WF_vars(IcalStart)
    /\ WF_vars(IcalUpdate)
    /\ SF_vars(IcalReceive)
    /\ WF_vars(AddReturn)

\* ------------------------------------------- ical.Repository.ListEvents
\* update: the repo.Event converted from the feed's VEVENT id; x1 has DTEND,
\* x2 has none (EndTime stays nil); a feed event carries no annotation
IcalEvent(id) ==
    [id |-> id,
     start |-> IF id = "x1" THEN CurrentMidnight - 1 ELSE CurrentMidnight,
     end |-> IF id = "x1" THEN CurrentMidnight ELSE NoTime,
     customer |-> "none", summary |-> <<"a">>, description |-> <<>>]

\* r.events[calId] as ListEvents clones it
IcalHeld(f) == [i \in 1..Len(feedEvents[f]) |-> IcalEvent(feedEvents[f][i])]

RECURSIVE IcalMatching(_, _, _)
\* the loop of ListEvents over all; acc is events
IcalMatching(evts, search, acc) ==
    IF evts = <<>> THEN [outcome |-> "ok", ids |-> acc]
    ELSE LET m == EventMatchesSearch(Head(evts), search)
         IN IF m = "panic" THEN [outcome |-> "panic", ids |-> <<>>]
            ELSE IcalMatching(Tail(evts), search,
                              IF m = "yes" THEN Append(acc, Head(evts).id) ELSE acc)

\* the options a client hands to ListEvents of a feed; the customer filter is
\* left out, a feed event has no annotation to compare with
IcalSearches ==
    [from : {NoTime, StartOfCache}, to : {NoTime, CurrentMidnight - 1},
     eventId : {"none", "x1"}, customerId : {"none"}, hasText : {FALSE}, text : {<<>>}]

\* ListEvents(ctx, calId, opts...): exists takes calendarLock, then the loop
\* over the clone of r.events[calId]
IcalListEvents(calId, search) ==
    /\ calendarLock = "free"
    /\ icalRead' =
          IF calId \notin calendars
          THEN [called |-> TRUE, cal |-> calId, known |-> FALSE, search |-> search,
                held |-> <<>>, outcome |-> "notfound", ids |-> <<>>]
          ELSE [called |-> TRUE, cal |-> calId, known |-> TRUE, search |-> search,
                held |-> IcalHeld(calId),
                outcome |-> IcalMatching(IcalHeld(calId), search, <<>>).outcome,
                ids |-> IcalMatching(IcalHeld(calId), search, <<>>).ids]
    /\ UNCHANGED <<icBase, icPoll, cancelled, feedVars, icVars>>

\* the refresh loop, Add, and clients that list the feeds
NextIcalList ==
    \/ NextAdd
    \/ \E calId \in Feeds, search \in IcalSearches : IcalListEvents(calId, search)

SpecIcalList == Init /\ [][NextIcalList]_vars

\* ------------------------------------------- CalendarService.UpdateEvent
\* paths := []string{...}, used when the request has no update_mask
DefaultPaths == <<"name", "description", "start", "end", "extra_data", "resources">>

\* if um := msg.GetUpdateMask().GetPaths(); len(um) > 0 { paths = um }
UpdatePaths(req) == IF Len(req.mask) > 0 THEN req.mask ELSE DefaultPaths

\* a switch in which the case extra_data changes nothing and goes on
PathError_ExtraOk(p, req) ==
    IF p = "name" THEN (IF req.name = "" THEN "InvalidArgument" ELSE "ok")
    ELSE IF p = "description" THEN "ok"
    ELSE IF p = "start"
         THEN (IF ~req.start.valid \/ req.start.t = ZeroTime THEN "InvalidArgument" ELSE "ok")
    ELSE IF p = "end" THEN (IF req.end = "invalid" THEN "InvalidArgument" ELSE "ok")
    ELSE IF p = "extra_data" THEN "ok"
    ELSE IF p = "resources" THEN "ok"
    ELSE "InvalidArgument"

\* the switch over one path p: the code of the error it returns, or "ok"
PathError(p, req) ==
    IF p = "name" THEN (IF req.name = "" THEN "InvalidArgument" ELSE "ok")
    ELSE IF p = "description" THEN "ok"
    ELSE IF p = "start"
         THEN (IF ~req.start.valid \/ req.start.t = ZeroTime THEN "InvalidArgument" ELSE "ok")
    ELSE IF p = "end" THEN (IF req.end = "invalid" THEN "InvalidArgument" ELSE "ok")
    ELSE IF p = "extra_data" THEN "Unimplemented"
    ELSE IF p = "resources" THEN "ok"
    ELSE "InvalidArgument"

RECURSIVE ApplyPaths(_, _)
\* for _, p := range paths: the first error ends the handler
ApplyPaths(paths, req) ==
    IF paths = <<>> THEN "ok"
    ELSE IF PathError(Head(paths), req) # "ok" THEN PathError(Head(paths), req)
    ELSE ApplyPaths(Tail(paths), req)

\* evt.StartTime after the loop: msg.Start if the path start was applied
UpdatedStart(id, req) ==
    IF \E i \in 1..Len(UpdatePaths(req)) : UpdatePaths(req)[i] = "start"
    THEN req.start.t ELSE up[id].start

\* CalendarService.UpdateEvent: the calendar, its Readonly flag, LoadEvent with
\* ignoreCache (answer is what Events.Get returns), the paths, then the writer
SvcUpdateEvent(c, id, req, answer) ==
    IF c \notin KnownCals
    THEN Refuse("service", "update", c, "none", "InvalidArgument")
    ELSE IF CalendarOf(c).Readonly
    THEN Refuse("service", "update", c, "none", "PermissionDenied")
    ELSE IF answer \in {"404", "410"}
    THEN Refuse("service", "update", c, "none", "NotFound")
    ELSE IF answer # "item"
    THEN Refuse("service", "update", c, "none", "LoadError")
    ELSE IF ApplyPaths(UpdatePaths(req), req) # "ok"
    THEN Refuse("service", "update", c, "none", ApplyPaths(UpdatePaths(req), req))
    ELSE IF Writer(CalendarOf(c)) # "ok"
    THEN Refuse("service", "update", c, "none", Writer(CalendarOf(c)))
    ELSE /\ up[id].cal = c
         /\ UpdateEvent(c, id, UpdatedStart(id, req))

\* the requests a client sends: the empty mask and masks with extra_data, with
\* an empty or a set name and an invalid or a valid start; the mask start with
\* an invalid, a zero and a valid start; the mask end; an unknown path
UpdateStarts ==
    {[valid |-> FALSE, t |-> ZeroTime], [valid |-> TRUE, t |-> ZeroTime]}
    \cup [valid : {TRUE}, t : StartTimes]

UpdateReqs ==
    [mask : {<<>>}, name : {"", "n"},
     start : {[valid |-> FALSE, t |-> ZeroTime], [valid |-> TRUE, t |-> CurrentMidnight]},
     end : {"ok"}]
    \cup
    [mask : {<<"name", "extra_data">>, <<"extra_data", "name">>}, name : {"", "n"},
     start : {[valid |-> TRUE, t |-> CurrentMidnight]}, end : {"ok"}]
    \cup
    [mask : {<<"start">>}, name : {"n"}, start : UpdateStarts, end : {"ok"}]
    \cup
    [mask : {<<"end">>, <<"bogus">>}, name : {"n"},
     start : {[valid |-> TRUE, t |-> CurrentMidnight]}, end : {"nil", "invalid"}]

\* what Events.Get answers for the event of the request
UpdateAnswers(c, id) == IF c \in Calendars THEN GetAnswers(c, id) ELSE {"err"}

\* one google calendar, one feed, and the UpdateEvent handler of the service
NextSvcUpdate ==
    \/ Boot
    \/ \E c \in Calendars : WatchPlain(c)
    \/ \E c \in ClientCals \cup {"nocal"}, id \in EventIds, req \in UpdateReqs :
          \E answer \in UpdateAnswers(c, id) : SvcUpdateEvent(c, id, req, answer)
    \/ TriggerOrigin

SpecSvcUpdate == Init /\ [][NextSvcUpdate]_vars

\* ------------------------------------------------------------------ claims
\* the live events of calendar c that a listing from min on contains
LiveInWindow(c, min) ==
    {[id |-> id, start |-> up[id].start, end |-> up[id].end] :
        id \in {i \in EventIds : up[i].cal = c /\ up[i].end > min}}

\* C1 (as claimed): a listing is served from the cache if and only if from_time is
\* set and from_time >= min_time, in every state of the cache, also with min_time
\* zeroed by an unexpected-shape reset.
C1_Original ==
    lastRead.cal # "none" =>
        (lastRead.served <=> (lastRead.from # NoTime /\ lastRead.from >= lastRead.min))

\* C1 (amended): a listing is served from the cache if and only if from_time is set
\* and either min_time is the zero time or from_time >= min_time; from_time equal
\* to min_time is a hit, from_time one instant before a non-zero min_time a miss.
C1_ServedIff ==
    lastRead.cal # "none" =>
        (lastRead.served <=>
            (lastRead.from # NoTime
             /\ (lastRead.min = ZeroTime \/ lastRead.from >= lastRead.min)))

\* a listing from before the zero time, served by a cache whose min_time was zeroed
C1_Witness ==
    /\ lastRead.cal = "A" /\ lastRead.served
    /\ lastRead.min = ZeroTime /\ lastRead.from < ZeroTime
    /\ lastOutcome["A"] = "unexpected"

\* C2 (as claimed): whenever loadEvents has returned true, events is sorted by
\* start time and holds every id at most once.
C2_Original ==
    \A c \in Calendars :
        (pc[c] = "post" /\ success[c]) => (Sorted(events[c]) /\ UniqueIds(events[c]))

\* C3 (as claimed, in the form a finite run refutes): once the upstream has been
\* quiet since before the last cycle began, and that cycle either ended by
\* storing a sync token or was the last step the watch loop will ever take, the
\* cache holds exactly the live upstream events of its window.
C3_Original ==
    \A c \in Calendars :
        (/\ h.op = "idle" /\ ~owed[c]
         /\ \/ pc[c] = "wait" /\ lastOutcome[c] = "synced"
            \/ pc[c] = "panic")
            => Range(events[c]) = LiveInWindow(c, minTime[c])

\* C4 (as claimed): once MoveEvent(A, E, B) has returned, no listing served from
\* A's cache contains E; and a cycle of B that began after the move and stored a
\* sync token leaves E in B's cache.
C4_Original ==
    \A c \in Calendars :
        /\ \A from \in FromTimes :
              (rw[c] = "free" /\ c \in eventsCache /\ CacheServes(from, minTime[c]))
                  => MatchingIds(events[c], from) \cap movedAway[c] = {}
        /\ (pc[c] = "wait" /\ h.op = "idle" /\ ~owed[c] /\ lastOutcome[c] = "synced")
              => \A id \in EventIds :
                    (up[id].cal = c /\ up[id].end > minTime[c]) => id \in Ids(events[c])

\* C5 (as claimed): when a mutation has been answered and its handler has
\* returned, a loadEvents that begins after the answer has begun or is about to.
C5_Original ==
    \A c \in Calendars : (h.op = "idle" /\ owed[c]) => pc[c] = "load"

\* C5 (amended): after a successful mutation the handler calls triggerSync(); a
\* watch loop blocked in its select starts a cycle at once, and when no cycle
\* starts after the mutation it is because the trigger found the loop busy and
\* was dropped (the next cycle then waits for the timer).
C5_TriggerOrDrop ==
    /\ [](\A c \in Calendars :
            (h.op = "idle" /\ owed[c] /\ pc[c] # "load") => lostTrig[c])
    /\ [][\A c \in Calendars :
            (h.pc = "trig" /\ h.cal = c /\ h'.pc # "trig" /\ pc[c] = "wait")
                => pc'[c] = "load"]_vars

\* a mutation whose trigger was dropped; the loop now waits for its timer
C5_Witness ==
    h.op = "idle" /\ owed["A"] /\ lostTrig["A"] /\ pc["A"] = "wait"

\* C6: triggerSync never blocks, and the triggers sent between two cycle ends
\* start at most one cycle.
C6_Coalesce ==
    /\ \A c \in Calendars : burst[c] <= 1
    /\ h.pc = "trig" => ENABLED TriggerOrigin

\* one trigger started a cycle, the next one was dropped while it was pending
C6_Witness ==
    burst["A"] = 1 /\ lostTrig["A"] /\ h.op = "idle" /\ ver = 3

\* C7: newCache returns only after the first loadEvents has returned, and
\* firstLoadDone is closed exactly once and never re-opened.
C7_FirstLoad ==
    /\ [](\A c \in Calendars :
            /\ c \in eventsCache => (firstLoadDone[c] /\ lastOutcome[c] # "none")
            /\ closes[c] = IF firstLoadDone[c] THEN 1 ELSE 0
            /\ (lastOutcome[c] # "none" /\ pc[c] # "post") => firstLoadDone[c])
    /\ [][\A c \in Calendars : firstLoadDone[c] => firstLoadDone'[c]]_vars

\* the cache is in use and a later cycle hit the unexpected-shape reset
C7_Witness ==
    /\ "A" \in eventsCache /\ closes["A"] = 1
    /\ lastOutcome["A"] = "unexpected" /\ pc["A"] = "wait"

\* C8: a cycle that ends on 'resource gone' leaves sync_token empty and reports
\* success, the wait that follows is one minute, and the next cycle clears events
\* and lists in full.
C8_Gone ==
    /\ [](\A c \in Calendars :
            /\ (pc[c] = "post" /\ lastOutcome[c] = "gone") => (success[c] /\ syncToken[c] = 0)
            /\ (pc[c] = "wait" /\ lastOutcome[c] = "gone")
                  => (waitTime[c] = Minute /\ syncToken[c] = 0)
            /\ (pc[c] \in {"call", "apply"} /\ lastOutcome[c] = "gone")
                  => (full[c] /\ minTime[c] = StartOfCache))
    /\ [][\A c \in Calendars :
            (pc[c] = "load" /\ pc'[c] = "call" /\ lastOutcome[c] = "gone")
                => events'[c] = <<>>]_vars

\* the full listing that follows a gone cycle of a cache that had synced before
C8_Witness ==
    /\ lastOutcome["A"] = "gone" /\ pc["A"] = "apply" /\ full["A"]
    /\ res["A"].items # <<>> /\ ver > 1

\* C9: a page with neither token empties sync_token, drops events, zeroes min_time
\* and reports failure; the next cycle lists in full with a non-zero min_time and
\* puts the listed events back.
C9_Unexpected ==
    /\ [](\A c \in Calendars :
            /\ (pc[c] = "post" /\ lastOutcome[c] = "unexpected")
                  => (~success[c] /\ syncToken[c] = 0 /\ minTime[c] = ZeroTime)
            /\ (pc[c] = "wait" /\ lastOutcome[c] = "unexpected")
                  => (fails[c] >= 1 /\ syncToken[c] = 0 /\ minTime[c] = ZeroTime)
            /\ (pc[c] \in {"call", "apply"} /\ lastOutcome[c] = "unexpected")
                  => (full[c] /\ minTime[c] # ZeroTime))
    /\ [][\A c \in Calendars :
            /\ (pc[c] = "apply" /\ res[c].next = "none" /\ pc'[c] = "post")
                  => events'[c] = <<>>
            /\ (pc[c] = "apply" /\ res[c].next # "none" /\ pc'[c] # "apply"
                   /\ lastOutcome[c] = "unexpected")
                  => \A i \in 1..Len(res[c].items) : res[c].items[i].id \in Ids(events'[c])
          ]_vars

\* the full listing that follows an unexpected-shape reset brings events back
C9_Witness ==
    /\ lastOutcome["A"] = "unexpected" /\ pc["A"] = "call" /\ pageToken["A"]
    /\ events["A"] # <<>> /\ minTime["A"] = StartOfCache

RECURSIVE Pow2(_)
Pow2(k) == IF k = 0 THEN 1 ELSE 2 * Pow2(k - 1)

\* C10: the wait is one minute after a success and min(2 x previous, 30) after a
\* failure: after k failures in a row it is min(2^k, 30) minutes, always within
\* 1..30.
C10_Backoff ==
    \A c \in Calendars :
        /\ waitTime[c] >= Minute /\ waitTime[c] <= MaxWait
        /\ waitTime[c] = Min(Pow2(fails[c]) * Minute, MaxWait)

\* the cap: a fifth failure in a row, 2^5 > 30
C10_Witness ==
    fails["A"] = 5 /\ waitTime["A"] = MaxWait /\ pc["A"] = "wait"

\* C11 (as claimed): after an evictEvents pass over a cache of at least 500 events,
\* min_time is the start of the current local day and no remaining event ended
\* strictly before min_time.
C11_Original ==
    \A c \in Calendars :
        (evict.ran /\ evict.before >= EvictMin /\ c \in Range(calList)) =>
            /\ minTime[c] = CurrentMidnight
            /\ \A i \in 1..Len(events[c]) :
                  events[c][i].end = NoTime \/ events[c][i].end >= minTime[c]

\* the search predicate of the specification; an event without annotation does
\* not match a customer_id filter
SearchPredicate(evt, search) ==
    /\ IF evt.end # NoTime THEN evt.end > search.from ELSE evt.start > search.from
    /\ search.to # NoTime => evt.start <= search.to
    /\ search.eventId # "none" => evt.id = search.eventId
    /\ search.customerId # "none" => evt.customer = search.customerId
    /\ search.hasText =>
          \/ Contains(ToLower(evt.summary), ToLower(search.text))
          \/ Contains(ToLower(evt.description), ToLower(search.text))

\* C12 (as claimed): a call with from_time >= min_time returns exactly the cached
\* events that satisfy the search predicate, in cache order.
C12_Original ==
    \A c \in Range(calList) :
        (lookup.outcome # "none" /\ lookup.search.from >= minTime[c]) =>
            /\ lookup.outcome = "served"
            /\ lookup.ids = [i \in 1..Len(SelectSeq(events[c], LAMBDA e : SearchPredicate(e, lookup.search)))
                               |-> SelectSeq(events[c], LAMBDA e : SearchPredicate(e, lookup.search))[i].id]

\* the entries {k |-> v : v in values, f(v) = (k, ok)}
IndexExact(index, values) ==
    /\ DOMAIN index.m = {Indexer(index.f, v).key : v \in {w \in Range(values) : Indexer(index.f, w).ok}}
    /\ \A k \in DOMAIN index.m :
           /\ index.m[k] \in Range(values)
           /\ Indexer(index.f, index.m[k]) = [key |-> k, ok |-> TRUE]

\* C13: after a successful load of the polling cache, once the loop is back in
\* its select and no AddIndex call is under way, every registered index holds
\* exactly the entries of the latest loaded values, also an index that was
\* registered while the loop was completing a load.
C13_Original ==
    (loopPc = "select" /\ adder.pc = "idle" /\ lastGood.at # ZeroTime)
        => \A i \in DOMAIN indexes : IndexExact(indexes[i], pvalues)

\* C14: a load that returns an error leaves values, lastFetch and every
\* registered index as they were, and every Get() returns the values of the
\* last successful load and reports stale exactly when more than the interval
\* has passed since that load.
C14_FailedLoadKeeps ==
    [][/\ (loopPc = "load" /\ loopPc' = "select")
             => UNCHANGED <<pvalues, lastFetch, indexes>>
       /\ (lastGet' # lastGet)
             => /\ lastGet'.values = lastGood.values
                /\ lastGet'.stale = (now - lastGood.at > PollInterval)]_vars

\* a Get() after a failed load returned the earlier, non-empty snapshot as stale
\* while an index is registered
C14_Witness ==
    /\ lastGet.called
    /\ lastGet.afterFail
    /\ lastGet.stale
    /\ lastGet.values # <<>>
    /\ lastGet.values = pvalues
    /\ lastGet.at - lastFetch > PollInterval
    /\ indexes # <<>>

\* C15: whatever the number of Start calls, at most one background loop has
\* been spawned, so the loader never runs in two loops at once.
C15_StartOnce == loops <= 1 /\ (loops = 1 <=> startOnce) /\ (loopPc # "none" <=> loops = 1)

\* Start has been called more than once and the one loop is loading
C15_Witness == starts > 1 /\ loops = 1 /\ loopPc = "load"

\* C16: a TriggerSync() call leaves its send only by the loop's receive, which
\* starts one loader invocation for this call alone (nothing is dropped or
\* coalesced), and while the loop is running every blocked call is received
\* in the end.
C16_TriggerDelivered ==
    /\ [][\A t \in TrigCallers :
             (blocked[t] /\ ~blocked'[t])
                 => /\ loopPc = "select" /\ loopPc' = "load" /\ cause' = "trigger"
                    /\ \A u \in TrigCallers \ {t} : blocked'[u] = blocked[u]]_vars
    /\ \A t \in TrigCallers :
           (blocked[t] /\ loopPc \in {"load", "index", "select"}) ~> (~blocked[t] \/ cancelled)

\* the loop has just received one trigger and starts a load while a second
\* caller is still blocked in its send
C16_Witness ==
    /\ loopPc = "load"
    /\ cause = "trigger"
    /\ \E t \in TrigCallers : blocked[t]
    /\ \E t \in TrigCallers : ~blocked[t]

\* C17: after a refresh pass, a feed whose fetch failed in the pass has the
\* event list it had before the pass, and a feed fetched successfully has the
\* fetched list.
C17_Original ==
    feedPass.ran =>
        \A f \in Feeds :
            /\ f \in feedPass.failed => feedEvents[f] = feedPass.before[f]
            /\ f \notin (feedPass.failed \cup feedPass.skipped) => feedEvents[f] = feedPass.res[f]

\* C18: a refresh pass fetches a feed only when the feed was never updated or
\* its last update plus its poll interval (default 10 minutes) is at or before
\* the time of the pass; a skipped feed keeps its event list.
C18_Original ==
    feedPass.ran =>
        \A f \in Feeds :
            /\ f \notin feedPass.skipped =>
                  \/ feedPass.lastBefore[f] = NoTime
                  \/ feedPass.lastBefore[f]
                       + (IF FeedPollInterval[f] = "" THEN FeedDefaultInterval
                          ELSE ParseDuration(FeedPollInterval[f]).d) <= feedPass.at
            /\ f \in feedPass.skipped => feedEvents[f] = feedPass.before[f]

\* C19: Writer() returns the read-only error for every calendar whose Readonly
\* flag is set or whose reader is no writer; CreateEvent, UpdateEvent, MoveEvent
\* and DeleteEvent of such a calendar return that error, and the step in which
\* they do changes neither the upstream nor any cache nor any watch loop.
C19_ReadOnlyRefused ==
    [][/\ \A ro \in BOOLEAN, w \in BOOLEAN :
             (ro \/ ~w) => Writer([ID |-> "any", Readonly |-> ro, writer |-> w]) = "ErrReadOnly"
       /\ (up' # up \/ (h' # h /\ h'.op # "idle")) => h'.cal \in Calendars \ Feeds
       /\ (denied' # denied /\ denied'.layer = "calendar")
             => /\ denied'.code = "ErrReadOnly"
                /\ denied'.cal \in Feeds
                /\ UNCHANGED <<upVars, cacheVars, watchVars, backendVars, histVars>>]_vars

\* a mutation of the feed calendar was refused while the google calendar holds
\* a synced event and an accepted mutation is being handled
C19_Witness ==
    /\ denied.layer = "calendar"
    /\ denied.cal = "F1"
    /\ denied.code = "ErrReadOnly"
    /\ denied.op = "delete"
    /\ h.op = "create"
    /\ events["A"] # <<>>

\* C20: MoveEvent with a read-only target returns before Events.Move is called:
\* the step changes neither the upstream nor any cache, starts no sync on any
\* calendar, and with a known, writable origin the error is PermissionDenied.
C20_TargetReadOnly ==
    [][/\ (up' # up /\ h'.op = "move") => h'.tgt \notin Feeds
       /\ (denied' # denied /\ denied'.layer = "service" /\ denied'.tgt \in Feeds)
             => /\ UNCHANGED <<upVars, cacheVars, watchVars, backendVars, histVars>>
                /\ denied'.cal \in Range(calList) => denied'.code = "PermissionDenied"]_vars

\* a move of a cached event of B to the feed calendar was refused after an
\* earlier move from A to B had gone through
C20_Witness ==
    /\ denied.layer = "service"
    /\ denied.cal = "B"
    /\ denied.tgt = "F1"
    /\ denied.code = "PermissionDenied"
    /\ up["e1"].cal = "B"
    /\ \E i \in 1..Len(events["B"]) : events["B"][i].id = "e1"

\* C21: the free slots calculateFreeSlots returns are pairwise disjoint, ordered
\* by start, each longer than 5 minutes and each inside [start, end], the
\* trailing slot and the slot of an empty range included.
C21_Original ==
    (fsOut.done /\ ~fsOut.err) =>
        /\ \A i \in 1..Len(fsOut.slots) :
               /\ fsOut.slots[i].end - fsOut.slots[i].start > FreeSlotMin
               /\ fsIn.start <= fsOut.slots[i].start
               /\ fsOut.slots[i].end <= fsIn.end
        /\ \A i \in 1..Len(fsOut.slots) : \A j \in (i + 1)..Len(fsOut.slots) :
               /\ fsOut.slots[i].start <= fsOut.slots[j].start
               /\ fsOut.slots[i].end <= fsOut.slots[j].start

\* an event that takes part in the computation covers the minute [t, t + 1)
SlotBusy(t) ==
    \E i \in 1..Len(fsIn.events) :
        LET e == fsIn.events[i]
        IN e.end # NoTime /\ ~e.fullDay /\ e.start <= t /\ t < e.end

\* [a, b) is a maximal part of [start, end) that no event covers
SlotGap(a, b) ==
    /\ a < b
    /\ \A t \in a..(b - 1) : ~SlotBusy(t)
    /\ a = fsIn.start \/ SlotBusy(a - 1)
    /\ b = fsIn.end \/ SlotBusy(b)

\* C22: for every range and event list, overlapping and nested events included,
\* the emitted free slots are exactly the maximal uncovered parts of
\* [start, end] that are longer than 5 minutes.
C22_Original ==
    fsOut.done =>
        {<<fsOut.slots[i].start, fsOut.slots[i].end>> : i \in 1..Len(fsOut.slots)}
          = {g \in (fsIn.start..fsIn.end) \X (fsIn.start..fsIn.end) :
                 SlotGap(g[1], g[2]) /\ g[2] - g[1] > FreeSlotMin}

\* the events with an end that are no full-day events do not overlap each other
SlotEventsApart ==
    \A i \in 1..Len(fsIn.events) : \A j \in 1..Len(fsIn.events) :
        LET a == fsIn.events[i]
            b == fsIn.events[j]
        IN (i # j /\ a.end # NoTime /\ b.end # NoTime /\ ~a.fullDay /\ ~b.fullDay)
               => (a.end <= b.start \/ b.end <= a.start)

\* C23: for events that do not overlap each other, in any input order, the
\* call succeeds and returns, in start order, exactly the gaps of [start, end]
\* between the events, before the first and after the last that are longer
\* than 5 minutes.
C23_Original ==
    (fsOut.done /\ SlotEventsApart) =>
        /\ ~fsOut.err
        /\ \A i \in 1..Len(fsOut.slots) : \A j \in (i + 1)..Len(fsOut.slots) :
               fsOut.slots[i].start < fsOut.slots[j].start
        /\ {<<fsOut.slots[i].start, fsOut.slots[i].end>> : i \in 1..Len(fsOut.slots)}
             = {g \in (fsIn.start..fsIn.end) \X (fsIn.start..fsIn.end) :
                    SlotGap(g[1], g[2]) /\ g[2] - g[1] > FreeSlotMin}

\* C24: once DeleteEvent(calendar, id) has succeeded, a LoadEvent(calendar, id)
\* that the upstream answers with not-found or gone returns the not-found
\* error, and no LoadEvent returns the deleted event from the cache, also while
\* the cache still holds a copy of it.
C24_DeleteThenLoad ==
    (loaded.called /\ loaded.afterDelete) =>
        /\ loaded.answer \in {"404", "410"} => loaded.outcome = "notfound"
        /\ loaded.outcome # "cache"

\* e1 was deleted, its copy is back in the cache, and LoadEvent without
\* ignoreCache answered not-found
C24_Witness ==
    /\ loaded.called /\ loaded.afterDelete /\ loaded.cached
    /\ loaded.id = "e1" /\ loaded.answer = "410" /\ loaded.outcome = "notfound"

\* C25: handing a change record to the publisher never blocks the sync cycle
\* (the step that applies a page is enabled whenever a page is there); every
\* record of a page is handed over in the step that applies the page, with the
\* write lock held from before the step until after it so that no reader runs
\* in between, and after the change is in events: a 'deleted' id is gone from
\* events and a changed event is in events as published, unless the page's
\* missing tokens made the cycle drop all events afterwards; and the way the
\* cycle goes on follows from the page's tokens alone.
C25_PublishAfterApply ==
    /\ [](\A c \in Calendars : pc[c] = "apply" => ENABLED Apply(c))
    /\ [][\A c \in Calendars :
            (pc[c] = "apply" /\ pc'[c] # "apply") =>
                /\ rw[c] = "W"
                /\ \A i \in 1..Len(Published(c)) :
                       LET r == Published(c)[i]
                       IN /\ r.id = res[c].items[i].id
                          /\ lastOutcome'[c] # "unexpected" =>
                                IF r.kind = "deleted" THEN r.id \notin Ids(events'[c])
                                ELSE [id |-> r.id, start |-> r.start, end |-> r.end]
                                         \in Range(events'[c])
                /\ (Len(Published(c)) = Len(res[c].items)) =>
                       /\ res[c].next = "page" => (pc'[c] = "call" /\ rw'[c] = "W")
                       /\ res[c].next = "sync" => (pc'[c] = "post" /\ success'[c])
          ]_vars

\* the page that carries the deletion of e1 has been applied and its record
\* handed over, and the cycle, still holding the write lock, goes on to the
\* next page
C25_Witness ==
    /\ rw["A"] = "W" /\ pc["A"] = "call" /\ pageToken["A"]
    /\ syncToken["A"] # 0 /\ chg["A"]["e1"] > syncToken["A"]
    /\ up["e1"].cal = "none" /\ "e1" \notin Ids(events["A"])

\* the watch loop of every booted calendar, the polling loop and the feed loop
\* have returned
LoopsTerminated ==
    /\ \A c \in Range(calList) : pc[c] = "done"
    /\ loopPc = "done"
    /\ feedDone

C27_Original == h.pc = "delw" => rw[h.cal] # "W"

\* C28 (as claimed): when a page has been applied, no item of the page that is
\* marked cancelled, with or without a start time, has its id in events, and a
\* 'deleted' record for its id is among the records handed to the publisher.
C28_Original ==
    [][\A c \in Calendars :
          (pc[c] = "apply" /\ pc'[c] # "apply") =>
              \A i \in 1..Len(res[c].items) :
                  res[c].items[i].cancelled =>
                      /\ res[c].items[i].id \notin Ids(events'[c])
                      /\ \E j \in 1..Len(Published(c)) :
                             /\ Published(c)[j].kind = "deleted"
                             /\ Published(c)[j].id = res[c].items[i].id]_vars

\* C29 (as claimed, for an upstream that does not change, where every completed
\* cycle has the same result): whenever a reader can take the read lock of a
\* cache that serves requests, events is ordered by start time and is either
\* the result of a completed cycle, that is the live upstream events of the
\* window, or still empty; never a part of a listing.
C29_Original ==
    \A c \in eventsCache :
        rw[c] = "free" =>
            /\ Sorted(events[c])
            /\ events[c] = <<>> \/ Range(events[c]) = LiveInWindow(c, StartOfCache)

\* C30 (as claimed): in every state of an event cache, each event in events
\* starts at or after min_time or ends at or after min_time, also after an
\* incremental cycle that reported a change to an event lying before min_time.
C30_Original ==
    \A c \in Calendars : \A i \in 1..Len(events[c]) :
        events[c][i].start >= minTime[c] \/ events[c][i].end >= minTime[c]

\* C31 (as claimed): while an event cache has never completed a successful sync,
\* tryLoadFromCache reports not-served for every opts, so that ListEvents goes to
\* the upstream instead of answering with an empty result from the cache.
C31_Original ==
    lastRead.cal # "none" => ~lastRead.served

\* C32 (as claimed): concurrent upstream listings with the same key tuple share
\* one upstream request, and a caller never receives the result of a request
\* whose tuple (calendar_id, from, upper, event_id, customer_id, search_text)
\* differs from its own in any component.
C32_Original ==
    /\ \A k, l \in Listers :
         (k # l /\ listers[k].pc = "run" /\ listers[l].pc = "run")
            => listers[k].tuple # listers[l].tuple
    /\ \A l \in Listers :
         listers[l].pc = "done" => listers[l].got.of = listers[l].tuple

\* C33 (as claimed): a listing that misses the cache sends an upstream request
\* with time_max <= min_time for every opts, also when opts.to_time is later than
\* min_time; appending its result leaves every id at most once in events and
\* sets min_time to min(min_time, from_time), never raising it.
C33_Original ==
    [][\A c \in Range(calList) :
         /\ \A l \in Listers :
              (listers[l].pc \notin {"run", "wait"} /\ listers'[l].pc \in {"run", "wait"})
                 => listers'[l].tuple[3] <= minTime[c]
         /\ UniqueIds(events'[c])
         /\ minTime'[c] <= minTime[c]
         /\ \A l \in Listers :
              (listers[l].pc = "run" /\ listers'[l].pc = "done" /\ events'[c] # events[c])
                 => minTime'[c] = Min(minTime[c], listers[l].tuple[2])]_vars

\* the changes up to the sync token of calendar c are in evts: an event the
\* upstream holds in the cache window is cached as the upstream has it, and an
\* event the upstream does not hold is not cached
NothingSkipped(c, tok, evts) ==
    \A id \in EventIds :
        chg[c][id] <= tok =>
            IF up[id].cal = c
            THEN up[id].end > minTime[c] =>
                    [id |-> id, start |-> up[id].start, end |-> up[id].end] \in Range(evts)
            ELSE id \notin Ids(evts)

\* C34: sync_token changes only when a cycle that fetched and applied every page
\* up to the one carrying next_sync_token stores that token, or when a gone
\* error or an unexpected-shape page clears it; a cycle that fails leaves it
\* unchanged, and when a token is stored no upstream change up to that token is
\* missing from the cache.
C34_TokenDiscipline ==
    [][\A c \in Calendars :
         /\ syncToken'[c] # syncToken[c] =>
              \/ /\ pc[c] = "apply" /\ res[c].next = "sync" /\ rest[c] = <<>>
                 /\ Convertible(res[c].items) = res[c].items
                 /\ syncToken'[c] = res[c].tok
                 /\ pc'[c] = "post" /\ lastOutcome'[c] = "synced"
              \/ /\ syncToken'[c] = 0
                 /\ pc'[c] = "post" /\ lastOutcome'[c] \in {"gone", "unexpected"}
         /\ (pc[c] \in {"call", "apply"} /\ pc'[c] \in {"post", "panic"}
             /\ lastOutcome'[c] \in {"error", "panic"})
               => syncToken'[c] = syncToken[c]
         /\ (pc[c] = "apply" /\ pc'[c] = "post" /\ lastOutcome'[c] = "synced")
               => NothingSkipped(c, syncToken'[c], events'[c])]_vars

\* an incremental cycle applied its first page, which added e2, and failed on
\* the second: the token is the one the cycle began with
C34_Witness ==
    /\ pc["A"] = "post" /\ lastOutcome["A"] = "error"
    /\ syncToken["A"] = 1 /\ chg["A"]["e2"] > 1 /\ chg["A"]["e1"] > 1
    /\ "e2" \in Ids(events["A"])

\* C35: under any interleaving of concurrent cacheFor calls, at most one event
\* cache is ever created per calendar id, every caller that has returned holds
\* that one instance, and it returned only after the first sync cycle of the
\* cache had finished.
C35_OneCachePerId ==
    /\ \A c \in Calendars :
         /\ created[c] <= 1
         /\ c \in eventsCache => created[c] = 1
    /\ \A g \in Getters :
         getters[g].pc = "done" =>
            /\ getters[g].got = 1
            /\ firstLoadDone[getters[g].cal]
            /\ lastOutcome[getters[g].cal] # "none"

\* both callers hold the cache of A, whose first cycle failed, while one of
\* them has gone on to ask for the cache of B and waits for B's first cycle
C35_Witness ==
    /\ getters["g1"] = [pc |-> "done", cal |-> "A", got |-> 1]
    /\ getters["g2"] = [pc |-> "first", cal |-> "B", got |-> 0]
    /\ created = [c \in Calendars |-> 1]
    /\ fails["A"] > 0 /\ ~firstLoadDone["B"]

\* C36 (as claimed): Add(cfg, triggerRefresh = true) eventually returns, in
\* every interleaving of Add with the refresh loop: once Add waits at the send
\* on the refresh channel with the calendar write lock held, it gets past it.
C36_Original ==
    (addCall.pc = "send") ~> (addCall.pc = "idle")

\* C37 (as claimed): a sync item that cannot be converted to an event is
\* skipped: events is unchanged for its id, no change record is published for
\* it, and the cycle goes on with the remaining items without faulting.
C37_Original ==
    [][\A c \in Calendars :
         (pc[c] = "apply" /\ pc'[c] # "apply") =>
            \A i \in 1..Len(res[c].items) :
               ~ConvertOk(res[c].items[i]) =>
                  /\ pc'[c] # "panic"
                  /\ {e \in Range(events'[c]) : e.id = res[c].items[i].id}
                        = {e \in Range(events[c]) : e.id = res[c].items[i].id}
                  /\ \A k \in 1..Len(Published(c)) :
                        Published(c)[k].id # res[c].items[i].id]_vars

\* C38 (as claimed): EventList.Less is a strict weak ordering by start time: no
\* two events a, b with end >= start are each less than the other, so the sort in
\* calculateFreeSlots leaves the events in non-decreasing start order and
\* calculateFreeSlots never returns the 'invalid slice sort' error.
C38_Original ==
    fsOut.done =>
        /\ \A i, j \in 1..Len(fsOut.filtered) :
             LET a == fsOut.filtered[i]
                 b == fsOut.filtered[j]
             IN (a.end # NoTime /\ b.end # NoTime /\ a.end >= a.start /\ b.end >= b.start)
                    => ~(EventListLess(a, b) /\ EventListLess(b, a))
        /\ \A i \in 2..Len(fsOut.filtered) :
             fsOut.filtered[i - 1].start <= fsOut.filtered[i].start
        /\ ~fsOut.err

\* C39 (as claimed): ListEvents of a feed with options that carry no from_time
\* completes without fault and returns the feed's events that match the
\* remaining filters; for an unknown calendar id it returns not-found.
C39_Original ==
    (icalRead.called /\ icalRead.search.from = NoTime) =>
        IF ~icalRead.known THEN icalRead.outcome = "notfound"
        ELSE /\ icalRead.outcome = "ok"
             /\ LET s == icalRead.search
                    m == SelectSeq(icalRead.held,
                                   LAMBDA e : /\ ~(s.to # NoTime /\ e.start > s.to)
                                              /\ ~(s.eventId # "none" /\ e.id # s.eventId))
                IN icalRead.ids = [i \in 1..Len(m) |-> m[i].id]

\* C40 (as claimed): an UpdateEvent whose effective path list contains
\* extra_data, which includes every request with an empty update_mask, returns
\* Unimplemented; and an UpdateEvent that ends in an error (unknown path, empty
\* name, invalid start or end, extra_data) writes nothing upstream and triggers
\* no cache sync.
C40_Original ==
    [][\A c \in {x \in ClientCals \cup {"nocal"} :
                      up' # up \/ (denied' # denied /\ denied'.cal = x)} :
        \A id \in EventIds, req \in UpdateReqs, answer \in {"item", "404", "410", "err"} :
          (answer \in UpdateAnswers(c, id) /\ SvcUpdateEvent(c, id, req, answer)) =>
              LET paths == IF req.mask = <<>>
                           THEN <<"name", "description", "start", "end", "extra_data", "resources">>
                           ELSE req.mask
                  reached == c \in Range(calList) /\ answer = "item"
                  known == {"name", "description", "start", "end", "extra_data", "resources"}
                  bad(p) == \/ p \notin known
                            \/ p = "name" /\ req.name = ""
                            \/ p = "start" /\ (~req.start.valid \/ req.start.t = ZeroTime)
                            \/ p = "end" /\ req.end = "invalid"
                            \/ p = "extra_data"
              IN /\ (reached /\ \E i \in 1..Len(paths) : paths[i] = "extra_data")
                      => denied' = [layer |-> "service", op |-> "update", cal |-> c,
                                    tgt |-> "none", code |-> "Unimplemented"]
                 /\ (\E i \in 1..Len(paths) : bad(paths[i]))
                      => UNCHANGED <<upVars, cacheVars, watchVars, backendVars, histVars>>]_vars

\* C40 (amended): UpdateEvent on a writable calendar whose event loads goes
\* through its paths in order and returns the error of the first path that
\* fails: Unimplemented if that path is extra_data, InvalidArgument if it is an
\* empty name, an invalid or zero start, an invalid end or an unknown path. A
\* request with an empty update_mask therefore never succeeds. A request with
\* a failing path writes nothing upstream and triggers no cache sync.
C40_FirstFailingPath ==
    [][\A c \in {x \in ClientCals \cup {"nocal"} :
                      up' # up \/ (denied' # denied /\ denied'.cal = x)} :
        \A id \in EventIds, req \in UpdateReqs, answer \in {"item", "404", "410", "err"} :
          (answer \in UpdateAnswers(c, id) /\ SvcUpdateEvent(c, id, req, answer)) =>
              LET paths == IF req.mask = <<>>
                           THEN <<"name", "description", "start", "end", "extra_data", "resources">>
                           ELSE req.mask
                  reached == c \in Range(calList) /\ answer = "item"
                  known == {"name", "description", "start", "end", "extra_data", "resources"}
                  invalid(p) == \/ p \notin known
                                \/ p = "name" /\ req.name = ""
                                \/ p = "start" /\ (~req.start.valid \/ req.start.t = ZeroTime)
                                \/ p = "end" /\ req.end = "invalid"
                  bad(p) == invalid(p) \/ p = "extra_data"
                  failing == {i \in 1..Len(paths) : bad(paths[i])}
                  firstFail == CHOOSE i \in failing : \A j \in failing : i <= j
              IN /\ (reached /\ failing # {})
                      => denied' = [layer |-> "service", op |-> "update", cal |-> c,
                                    tgt |-> "none",
                                    code |-> IF paths[firstFail] = "extra_data"
                                             THEN "Unimplemented" ELSE "InvalidArgument"]
                 /\ (reached /\ req.mask = <<>>) => denied'.op = "update" /\ up' = up
                 /\ failing # {}
                      => UNCHANGED <<upVars, cacheVars, watchVars, backendVars, histVars>>]_vars

\* an UpdateEvent on the google calendar was refused with Unimplemented
C40_Witness ==
    /\ denied = [layer |-> "service", op |-> "update", cal |-> "A", tgt |-> "none",
                 code |-> "Unimplemented"]
    /\ Serving

====
